---- MODULE Spec2Model ----
(***************************************************************************)
(* Book translator: two-stage translation pipeline (stage 1 primary        *)
(* translation, stage 2 reflection), its translation cache and the job row *)
(* kept by the API layer.  Texts are real strings; the helpers below give  *)
(* the Python string operations the code relies on.                        *)
(***************************************************************************)
EXTENDS Integers, Sequences, FiniteSets, TLC

(***************************************************************************)
(* Python string primitives                                                *)
(***************************************************************************)

\* One character of a string (s[i-1] in Python).
CharAt(s, i) == SubSeq(s, i, i)

\* str.isspace() for the characters that occur in the modelled texts.
IsWs(c) == c \in {" ", "\n", "\t", "\r"}

\* str.startswith
StartsWith(s, p) == Len(s) >= Len(p) /\ SubSeq(s, 1, Len(p)) = p

\* str.endswith
EndsWith(s, p) == Len(s) >= Len(p) /\ SubSeq(s, Len(s) - Len(p) + 1, Len(s)) = p

RECURSIVE LStrip(_)
\* str.lstrip()
LStrip(s) == IF s # "" /\ IsWs(CharAt(s, 1)) THEN LStrip(SubSeq(s, 2, Len(s))) ELSE s

RECURSIVE RStrip(_)
\* str.rstrip()
RStrip(s) == IF s # "" /\ IsWs(CharAt(s, Len(s))) THEN RStrip(SubSeq(s, 1, Len(s) - 1)) ELSE s

\* str.strip()
Strip(s) == RStrip(LStrip(s))

UpperChars == "ABCDEFGHIJKLMNOPQRSTUVWXYZ"

LowerChars == "abcdefghijklmnopqrstuvwxyz"

\* str.lower() of one character (ASCII letters; other characters of the
\* modelled texts have no upper case form).
LowerChar(c) ==
    IF \E i \in 1..Len(UpperChars) : CharAt(UpperChars, i) = c
    THEN CharAt(LowerChars, CHOOSE i \in 1..Len(UpperChars) : CharAt(UpperChars, i) = c)
    ELSE c

RECURSIVE LowerRange(_, _, _)
\* The lower case form of s[lo..hi], computed by halves.
LowerRange(s, lo, hi) ==
    IF lo > hi THEN ""
    ELSE IF lo = hi THEN LowerChar(CharAt(s, lo))
    ELSE LET mid == (lo + hi) \div 2
         IN  LowerRange(s, lo, mid) \o LowerRange(s, mid + 1, hi)

\* str.lower()
Lower(s) == LowerRange(s, 1, Len(s))

\* The least element of a non-empty set of integers.
Least(S) == CHOOSE k \in S : \A m \in S : k <= m

RECURSIVE SplitWsAcc(_, _, _)
\* The words of s from position i on, appended to acc: the next word runs
\* from the first non-whitespace position to the position before the next
\* whitespace.
SplitWsAcc(s, i, acc) ==
    LET starts == {k \in i..Len(s) : ~IsWs(CharAt(s, k))}
    IN  IF starts = {} THEN acc
        ELSE LET b == Least(starts)
                 stops == {k \in b..Len(s) : IsWs(CharAt(s, k))}
                 e == IF stops = {} THEN Len(s) + 1 ELSE Least(stops)
             IN  SplitWsAcc(s, e, Append(acc, SubSeq(s, b, e - 1)))

\* str.split() with no argument: the whitespace separated words.
SplitWs(s) == SplitWsAcc(s, 1, <<>>)

RECURSIVE Join(_, _)
\* sep.join(parts)
Join(parts, sep) ==
    IF Len(parts) = 0 THEN ""
    ELSE IF Len(parts) = 1 THEN parts[1]
    ELSE parts[1] \o sep \o Join(Tail(parts), sep)

\* str.find(sub, i-1) + 1: first position >= i where sub occurs, 0 if none.
FindFrom(s, sub, i) ==
    LET found == {k \in i..(Len(s) - Len(sub) + 1) : SubSeq(s, k, k + Len(sub) - 1) = sub}
    IN  IF found = {} THEN 0 ELSE Least(found)

RECURSIVE CountFrom(_, _, _)
CountFrom(s, sub, i) ==
    LET k == FindFrom(s, sub, i)
    IN  IF k = 0 THEN 0 ELSE 1 + CountFrom(s, sub, k + Len(sub))

\* str.count(sub): number of non-overlapping occurrences (of a non-empty sub).
Count(s, sub) == CountFrom(s, sub, 1)

\* set(seq)
SeqToSet(q) == {q[i] : i \in 1..Len(q)}

Max(a, b) == IF a >= b THEN a ELSE b

Min(a, b) == IF a <= b THEN a ELSE b

(***************************************************************************)
(* Language markers and the translation validator                          *)
(***************************************************************************)

\* LANGUAGE_MARKERS['en']['markers']
EnMarkers ==
    <<" the ", " a ", " an ", " this ", " that ", " these ", " those ",
      " some ", " any ", " no ", " every ", " each ", " all ", " both ",
      " i ", " you ", " he ", " she ", " it ", " we ", " they ", " me ",
      " him ", " her ", " us ", " them ", " my ", " your ", " his ", " its ",
      " our ", " their ", " mine ", " yours ", " who ", " whom ", " whose ",
      " which ", " what ", " is ", " are ", " was ", " were ", " be ",
      " been ", " being ", " have ", " has ", " had ", " having ", " do ",
      " does ", " did ", " will ", " would ", " shall ", " should ", " can ",
      " could ", " may ", " might ", " must ", " need ", " dare ", " ought ",
      " said ", " says ", " told ", " asked ", " answered ", " replied ",
      " went ", " came ", " got ", " made ", " took ", " gave ", " knew ",
      " thought ", " felt ", " saw ", " heard ", " seemed ", " looked ",
      " in ", " on ", " at ", " by ", " for ", " with ", " about ",
      " against ", " between ", " into ", " through ", " during ",
      " before ", " after ", " above ", " below ", " from ", " up ",
      " down ", " out ", " off ", " over ", " under ", " again ", " and ",
      " but ", " or ", " nor ", " so ", " yet ", " because ", " although ",
      " while ", " if ", " unless ", " until ", " when ", " where ",
      " whether ", " however ", " therefore ", " moreover ", " not ",
      " very ", " really ", " just ", " also ", " only ", " even ",
      " still ", " already ", " always ", " never ", " often ",
      " sometimes ", " usually ", " here ", " there ", " now ", " then ",
      " of the ", " to the ", " in the ", " on the ", " at the ",
      " and the ", " for the ", " with the ", " from the ", " there is ",
      " there are ", " there was ", " there were ">>

\* LANGUAGE_MARKERS['es']['markers']
EsMarkers ==
    <<" el ", " la ", " los ", " las ", " un ", " una ", " unos ", " unas ",
      " de ", " del ", " al ", " en ", " con ", " por ", " para ", " sin ",
      " sobre ", " entre ", " hacia ", " desde ", " hasta ", " según ",
      " durante ", " mediante ", " contra ", " ante ", " bajo ", " yo ",
      " tú ", " él ", " ella ", " usted ", " nosotros ", " ellos ",
      " ellas ", " ustedes ", " me ", " te ", " le ", " nos ", " les ",
      " lo ", " se ", " mi ", " tu ", " su ", " mis ", " tus ", " sus ",
      " que ", " quien ", " cual ", " cuyo ", " donde ", " como ",
      " cuando ", " es ", " son ", " era ", " eran ", " fue ", " fueron ",
      " ser ", " sido ", " está ", " están ", " estaba ", " estuvo ",
      " estar ", " estado ", " ha ", " han ", " había ", " hubo ", " haber ",
      " habido ", " tiene ", " tienen ", " tenía ", " tuvo ", " tener ",
      " tenido ", " y ", " e ", " o ", " u ", " pero ", " sino ", " aunque ",
      " porque ", " no ", " sí ", " muy ", " más ", " menos ", " bien ",
      " mal ", " de la ", " de los ", " de las ", " en el ", " en la ">>

\* LANGUAGE_MARKERS restricted to the languages the model translates between,
\* English and Spanish (both of type word).
LANGUAGE_MARKERS ==
    [en |-> [type |-> "word", markers |-> EnMarkers, min_markers |-> 3],
     es |-> [type |-> "word", markers |-> EsMarkers, min_markers |-> 3]]

RECURSIVE CountMarkers(_, _, _, _)
\* The loop over markers of detect_language_markers: total occurrences of
\* markers[lo..hi] in text_lower, summed by halves.
CountMarkers(text_lower, markers, lo, hi) ==
    IF lo > hi THEN 0
    ELSE IF lo = hi THEN Count(text_lower, Lower(markers[lo]))
    ELSE CountMarkers(text_lower, markers, lo, (lo + hi) \div 2)
             + CountMarkers(text_lower, markers, (lo + hi) \div 2 + 1, hi)

\* text_lower of detect_language_markers: word markers are looked for in the
\* lowered text padded with a space on each side, the others in the lowered
\* text.
MarkerText(text, type) ==
    IF type = "word" THEN " " \o Lower(text) \o " " ELSE Lower(text)

\* text_length of detect_language_markers, also word_count of
\* is_likely_translated: words for word markers, characters otherwise.
MarkerTextLength(text, type) ==
    IF type = "word" THEN Len(SplitWs(text)) ELSE Len(text)

\* The triple detect_language_markers returns: the marker count, the markers
\* found (stripped) and the ratio count / max(text_length, 1) as a fraction.
MarkerResult(count, found, text_length) ==
    [count |-> count,
     found |-> [i \in 1..Len(found) |-> Strip(found[i])],
     ratio |-> [num |-> count, den |-> Max(text_length, 1)]]

\* The body of detect_language_markers once text_lower is computed.
DetectInText(text, text_lower, lang_info) ==
    MarkerResult(CountMarkers(text_lower, lang_info.markers, 1, Len(lang_info.markers)),
                 SelectSeq(lang_info.markers, LAMBDA mk : Count(text_lower, Lower(mk)) > 0),
                 MarkerTextLength(text, lang_info.type))

\* The body of detect_language_markers for a language that has markers.
DetectWith(text, lang_info) ==
    DetectInText(text, MarkerText(text, lang_info.type), lang_info)

\* detect_language_markers(text, language)
detect_language_markers(text, language) ==
    IF language \notin DOMAIN LANGUAGE_MARKERS
    THEN MarkerResult(0, <<>>, 1)
    ELSE DetectWith(text, LANGUAGE_MARKERS[language])

\* similarity_threshold = 0.65, the default argument of is_likely_translated,
\* as the fraction SimilarityNum / SimilarityDen.
SimilarityNum == 65

SimilarityDen == 100

\* Translations shorter than this are accepted without further checks.
ShortTextLimit == 50

\* The target-marker rule applies only to translations longer than this.
TargetCheckLimit == 100

\* ' '.join(text.lower().split())
NormalizeWords(text) == Join(SplitWs(Lower(text)), " ")

\* similarity = len(common_words) / len(orig_words) > similarity_threshold
SimilarWords(orig_words, trans_words) ==
    /\ Cardinality(orig_words) > 0
    /\ Cardinality(orig_words \cap trans_words) * SimilarityDen
           > SimilarityNum * Cardinality(orig_words)

\* Check 5 of is_likely_translated: word overlap, skipped for CJK sources.
TooSimilar(orig_normalized, trans_normalized, source_lang) ==
    /\ source_lang \notin {"zh", "ja", "ko"}
    /\ SimilarWords(SeqToSet(SplitWs(orig_normalized)), SeqToSet(SplitWs(trans_normalized)))

\* threshold of check 6: scaled with the length of the translation.
SourceThreshold(lang_info, word_count) ==
    IF lang_info.type = "word"
    THEN Max(lang_info.min_markers + 3, Min(10, word_count \div 12))
    ELSE Max(lang_info.min_markers + 4, Min(15, word_count \div 25))

\* Check 6 of is_likely_translated for a source language that has markers.
SourceLeftWith(translated, source_lang, lang_info) ==
    detect_language_markers(translated, source_lang).count
        > SourceThreshold(lang_info, MarkerTextLength(translated, lang_info.type))

\* Check 6 of is_likely_translated: too many markers of the source language.
SourceLeft(translated, source_lang) ==
    /\ source_lang \in DOMAIN LANGUAGE_MARKERS
    /\ SourceLeftWith(translated, source_lang, LANGUAGE_MARKERS[source_lang])

\* Check 7 of is_likely_translated: a long text with too few markers of the
\* target language.
TargetMissing(translated, target_lang) ==
    /\ target_lang \in DOMAIN LANGUAGE_MARKERS
    /\ detect_language_markers(translated, target_lang).count
           < LANGUAGE_MARKERS[target_lang].min_markers
    /\ Len(translated) > TargetCheckLimit

\* Checks 6 and 7 alone: a validator that does not compare the translation
\* with the original.
ChecksWithoutEcho(orig_normalized, trans_normalized, translated, source_lang, target_lang) ==
    IF SourceLeft(translated, source_lang) THEN FALSE
    ELSE IF TargetMissing(translated, target_lang) THEN FALSE
    ELSE TRUE

\* Checks 4 to 7 of is_likely_translated, on the normalised texts.
LongTextChecks(orig_normalized, trans_normalized, translated, source_lang, target_lang) ==
    IF orig_normalized = trans_normalized THEN FALSE
    ELSE IF TooSimilar(orig_normalized, trans_normalized, source_lang) THEN FALSE
    ELSE IF SourceLeft(translated, source_lang) THEN FALSE
    ELSE IF TargetMissing(translated, target_lang) THEN FALSE
    ELSE TRUE

\* A validator that checks texts of one language like any other pair.
ValidatorWithoutSameLanguageRule(original, translated, source_lang, target_lang) ==
    IF translated = "" \/ original = "" THEN FALSE
    ELSE IF Len(translated) < ShortTextLimit THEN TRUE
    ELSE LongTextChecks(NormalizeWords(original), NormalizeWords(translated),
                        translated, source_lang, target_lang)

\* A validator that checks short translations like long ones.
ValidatorWithoutShortRule(original, translated, source_lang, target_lang) ==
    IF translated = "" \/ original = "" THEN FALSE
    ELSE IF source_lang = target_lang THEN TRUE
    ELSE LongTextChecks(NormalizeWords(original), NormalizeWords(translated),
                        translated, source_lang, target_lang)

\* is_likely_translated(original, translated, source_lang, target_lang)
is_likely_translated(original, translated, source_lang, target_lang) ==
    IF translated = "" \/ original = "" THEN FALSE
    ELSE IF source_lang = target_lang THEN TRUE
    ELSE IF Len(translated) < ShortTextLimit THEN TRUE
    ELSE LongTextChecks(NormalizeWords(original), NormalizeWords(translated),
                        translated, source_lang, target_lang)


(***************************************************************************)
(* The validator of the single-file application (src/translator.py)        *)
(***************************************************************************)

\* LANGUAGE_MARKERS['es']['markers'] of src/translator.py, as the file
\* spells them; a character outside Latin-1 is written ~ (no text given to
\* the validator holds one).  The English table is the one above.
LegacyEsMarkers ==
    <<" el ", " la ", " los ", " las ", " un ", " una ", " unos ", " unas ",
      " de ", " del ", " al ", " en ", " con ", " por ", " para ", " sin ",
      " sobre ", " entre ", " hacia ", " desde ", " hasta ", " seg~~n ",
      " durante ", " mediante ", " contra ", " ante ", " bajo ", " yo ",
      " t~~ ", " ~©l ", " ella ", " usted ", " nosotros ", " ellos ",
      " ellas ", " ustedes ", " me ", " te ", " le ", " nos ", " les ",
      " lo ", " se ", " mi ", " tu ", " su ", " mis ", " tus ", " sus ",
      " que ", " quien ", " cual ", " cuyo ", " donde ", " como ",
      " cuando ", " es ", " son ", " era ", " eran ", " fue ", " fueron ",
      " ser ", " sido ", " est~° ", " est~°n ", " estaba ", " estuvo ",
      " estar ", " estado ", " ha ", " han ", " hab~~a ", " hubo ",
      " haber ", " habido ", " tiene ", " tienen ", " ten~~a ", " tuvo ",
      " tener ", " tenido ", " hace ", " hacen ", " hac~~a ", " hizo ",
      " hacer ", " hecho ", " puede ", " pueden ", " pod~~a ", " pudo ",
      " poder ", " podido ", " quiere ", " quieren ", " quer~~a ", " quiso ",
      " querer ", " dice ", " dicen ", " dec~~a ", " dijo ", " decir ",
      " dicho ", " sabe ", " saben ", " sab~~a ", " supo ", " saber ",
      " sabido ", " ve ", " ven ", " ve~~a ", " vio ", " ver ", " visto ",
      " va ", " van ", " iba ", " fue ", " ir ", " ido ", " y ", " e ",
      " o ", " u ", " pero ", " sino ", " aunque ", " porque ", " pues ",
      " como ", " si ", " cuando ", " donde ", " mientras ", " no ", " s~~ ",
      " muy ", " m~°s ", " menos ", " bien ", " mal ", " ya ", " a~~n ",
      " todav~~a ", " siempre ", " nunca ", " tambi~©n ", " solo ",
      " adem~°s ", " aqu~~ ", " all~~ ", " ahora ", " entonces ", " de la ",
      " de los ", " de las ", " en el ", " en la ", " a la ", " a los ",
      " por el ", " por la ", " con el ", " con la ">>

\* LANGUAGE_MARKERS of src/translator.py restricted to English and Spanish.
LEGACY_LANGUAGE_MARKERS ==
    [en |-> [type |-> "word", markers |-> EnMarkers, min_markers |-> 3],
     es |-> [type |-> "word", markers |-> LegacyEsMarkers, min_markers |-> 3]]

\* detect_language_markers of src/translator.py: marker_count, the number of
\* markers of the table that occur in the lowered text.
legacy_detect_language_markers(text, lang_code) ==
    IF lang_code \notin DOMAIN LEGACY_LANGUAGE_MARKERS THEN 0
    ELSE LET text_lower == Lower(text)
         IN  Len(SelectSeq(LEGACY_LANGUAGE_MARKERS[lang_code].markers,
                           LAMBDA mk : Count(text_lower, Lower(mk)) > 0))

\* threshold of BookTranslator._is_likely_translated
LegacySourceThreshold(lang_info, word_count) ==
    IF lang_info.type = "word"
    THEN Max(lang_info.min_markers, Min(8, word_count \div 15))
    ELSE Max(lang_info.min_markers + 2, Min(12, word_count \div 30))

\* The source-marker check of BookTranslator._is_likely_translated.
LegacySourceLeft(translated, source_lang) ==
    /\ source_lang \in DOMAIN LEGACY_LANGUAGE_MARKERS
    /\ legacy_detect_language_markers(translated, source_lang)
           > LegacySourceThreshold(LEGACY_LANGUAGE_MARKERS[source_lang],
                                   MarkerTextLength(translated,
                                       LEGACY_LANGUAGE_MARKERS[source_lang].type))

\* The target-marker check of BookTranslator._is_likely_translated.
LegacyTargetMissing(translated, target_lang) ==
    /\ target_lang \in DOMAIN LEGACY_LANGUAGE_MARKERS
    /\ legacy_detect_language_markers(translated, target_lang)
           < LEGACY_LANGUAGE_MARKERS[target_lang].min_markers
    /\ Len(translated) > TargetCheckLimit

\* BookTranslator._is_likely_translated(original, translated, source_lang,
\* target_lang) of src/translator.py
legacy_is_likely_translated(original, translated, source_lang, target_lang) ==
    IF translated = "" \/ original = "" THEN FALSE
    ELSE IF source_lang = target_lang THEN TRUE
    ELSE IF Len(translated) < ShortTextLimit THEN TRUE
    ELSE IF NormalizeWords(original) = NormalizeWords(translated) THEN FALSE
    ELSE IF TooSimilar(NormalizeWords(original), NormalizeWords(translated), source_lang)
    THEN FALSE
    ELSE IF LegacySourceLeft(translated, source_lang) THEN FALSE
    ELSE IF LegacyTargetMissing(translated, target_lang) THEN FALSE
    ELSE TRUE


(***************************************************************************)
(* Text processing: normalisation, chunking, response cleaning             *)
(***************************************************************************)

RECURSIVE SplitOnFrom(_, _, _)
SplitOnFrom(s, sep, i) ==
    LET k == FindFrom(s, sep, i)
    IN  IF k = 0 THEN <<SubSeq(s, i, Len(s))>>
        ELSE <<SubSeq(s, i, k - 1)>> \o SplitOnFrom(s, sep, k + Len(sep))

\* str.split(sep) for a non-empty separator: the parts, empty ones included.
SplitOn(s, sep) == SplitOnFrom(s, sep, 1)

RECURSIVE ReplaceAll(_, _, _)
\* str.replace(old, new)
ReplaceAll(s, old, new) ==
    LET k == FindFrom(s, old, 1)
    IN  IF k = 0 THEN s
        ELSE SubSeq(s, 1, k - 1) \o new \o ReplaceAll(SubSeq(s, k + Len(old), Len(s)), old, new)

RECURSIVE LStripNewlines(_)
LStripNewlines(s) == IF StartsWith(s, "\n") THEN LStripNewlines(SubSeq(s, 2, Len(s))) ELSE s

RECURSIVE CollapseNewlines(_)
\* re.sub(r'\n{3,}', '\n\n', text): every run of three or more newlines
\* becomes two.
CollapseNewlines(s) ==
    LET k == FindFrom(s, "\n\n\n", 1)
    IN  IF k = 0 THEN s
        ELSE SubSeq(s, 1, k - 1) \o "\n\n"
                 \o CollapseNewlines(LET rest == SubSeq(s, k + 3, Len(s))
                                         n == Len(rest) - Len(LStripNewlines(rest))
                                     IN  SubSeq(rest, n + 1, Len(rest)))

\* normalize_text(text)
normalize_text(text) ==
    Strip(CollapseNewlines(ReplaceAll(ReplaceAll(text, "\r\n", "\n"), "\r", "\n")))

RECURSIVE RemoveTagBlocks(_, _, _)
\* re.sub(open + '.*?' + close, '', s, DOTALL | IGNORECASE): each block from
\* an opening tag to the nearest closing tag after it is removed.
RemoveTagBlocks(s, open, close) ==
    LET low == Lower(s)
        a == FindFrom(low, open, 1)
        b == IF a = 0 THEN 0 ELSE FindFrom(low, close, a + Len(open))
    IN  IF a = 0 \/ b = 0 THEN s
        ELSE SubSeq(s, 1, a - 1)
                 \o RemoveTagBlocks(SubSeq(s, b + Len(close), Len(s)), open, close)

\* re.sub(open + '.*$', '', s, DOTALL | IGNORECASE): an opening tag that is
\* never closed is removed with everything after it.
RemoveFromTag(s, open) ==
    LET a == FindFrom(Lower(s), open, 1)
    IN  IF a = 0 THEN s ELSE SubSeq(s, 1, a - 1)

\* Phase 1 of clean_translation_response: thinking / reasoning tags.
RemoveThinkingTags(s) ==
    Strip(RemoveFromTag(RemoveFromTag(
        RemoveTagBlocks(RemoveTagBlocks(RemoveTagBlocks(RemoveTagBlocks(
            s, "<think>", "</think>"),
               "<thinking>", "</thinking>"),
               "<reasoning>", "</reasoning>"),
               "<reflection>", "</reflection>"),
        "<think>"), "<thinking>"))

RECURSIVE SentenceSplitFrom(_, _)
\* re.split(r'(?<=[.!?])\s+', paragraph) from position start on: the text is
\* cut at each run of whitespace that follows '.', '!' or '?'.
SentenceSplitFrom(s, start) ==
    LET cuts == {i \in start..Len(s) :
                    i > 1 /\ IsWs(CharAt(s, i)) /\ CharAt(s, i - 1) \in {".", "!", "?"}}
    IN  IF cuts = {} THEN <<SubSeq(s, start, Len(s))>>
        ELSE LET i == Least(cuts)
                 rest == SubSeq(s, i, Len(s))
                 run == Len(rest) - Len(LStrip(rest))
             IN  <<SubSeq(s, start, i - 1)>> \o SentenceSplitFrom(s, i + run)

SentenceSplit(s) == SentenceSplitFrom(s, 1)

RECURSIVE PackSentences(_, _, _, _, _)
\* The loop over sentences of a paragraph longer than max_length.
PackSentences(sentences, k, max_length, sentence_chunk, sentence_length) ==
    IF k > Len(sentences)
    THEN IF Len(sentence_chunk) > 0 THEN <<Join(sentence_chunk, " ")>> ELSE <<>>
    ELSE LET sentence == sentences[k]
             flush == sentence_length + Len(sentence) > max_length /\ Len(sentence_chunk) > 0
         IN  IF flush
             THEN <<Join(sentence_chunk, " ")>>
                      \o PackSentences(sentences, k + 1, max_length,
                                       <<sentence>>, Len(sentence) + 1)
             ELSE PackSentences(sentences, k + 1, max_length,
                                Append(sentence_chunk, sentence),
                                sentence_length + Len(sentence) + 1)

RECURSIVE PackParagraphs(_, _, _, _, _)
\* The loop over paragraphs of split_into_chunks; current_chunk and
\* current_length are the loop's accumulators, the result is the chunks
\* appended from paragraph k on.
PackParagraphs(paragraphs, k, max_length, current_chunk, current_length) ==
    IF k > Len(paragraphs)
    THEN IF Len(current_chunk) > 0 THEN <<Join(current_chunk, "\n\n")>> ELSE <<>>
    ELSE LET paragraph == Strip(paragraphs[k])
             para_length == Len(paragraph)
         IN  IF paragraph = ""
             THEN PackParagraphs(paragraphs, k + 1, max_length, current_chunk, current_length)
             ELSE IF para_length > max_length
             THEN (IF Len(current_chunk) > 0 THEN <<Join(current_chunk, "\n\n")>> ELSE <<>>)
                      \o PackSentences(SentenceSplit(paragraph), 1, max_length, <<>>, 0)
                      \o PackParagraphs(paragraphs, k + 1, max_length, <<>>, 0)
             ELSE IF current_length + para_length + 2 > max_length /\ Len(current_chunk) > 0
             THEN <<Join(current_chunk, "\n\n")>>
                      \o PackParagraphs(paragraphs, k + 1, max_length,
                                        <<paragraph>>, para_length + 2)
             ELSE PackParagraphs(paragraphs, k + 1, max_length,
                                 Append(current_chunk, paragraph),
                                 current_length + para_length + 2)

\* split_into_chunks(text, max_length)
split_into_chunks(text, max_length) ==
    LET packed == PackParagraphs(SplitOn(text, "\n\n"), 1, max_length, <<>>, 0)
    IN  IF Len(packed) > 0 THEN packed ELSE <<text>>

\* [A-Z]
IsUpper(c) == \E i \in 1..Len(UpperChars) : CharAt(UpperChars, i) = c

\* The length of the run of whitespace that starts at position i of s.
WsRun(s, i) == (Len(s) - i + 1) - Len(LStrip(SubSeq(s, i, Len(s))))

RECURSIVE LegacySentenceSplitFrom(_, _)
\* re.split(r'(?<=[.!?])\s+(?=[A-Z])', paragraph) from position start on: the
\* text is cut at each run of whitespace that follows '.', '!' or '?' and is
\* followed by a capital letter.
LegacySentenceSplitFrom(s, start) ==
    LET cuts == {i \in start..Len(s) :
                    /\ i > 1
                    /\ IsWs(CharAt(s, i))
                    /\ CharAt(s, i - 1) \in {".", "!", "?"}
                    /\ i + WsRun(s, i) <= Len(s)
                    /\ IsUpper(CharAt(s, i + WsRun(s, i)))}
    IN  IF cuts = {} THEN <<SubSeq(s, start, Len(s))>>
        ELSE LET i == Least(cuts)
             IN  <<SubSeq(s, start, i - 1)>> \o LegacySentenceSplitFrom(s, i + WsRun(s, i))

RECURSIVE LegacyPackClauses(_, _, _, _, _)
\* BookTranslator.split_into_chunks: the loop over the clauses of a sentence
\* longer than MAX_LENGTH.
LegacyPackClauses(clauses, k, MAX_LENGTH, clause_chunk, clause_length) ==
    IF k > Len(clauses)
    THEN IF Len(clause_chunk) > 0 THEN <<Join(clause_chunk, ", ")>> ELSE <<>>
    ELSE LET clause == clauses[k]
         IN  IF clause_length + Len(clause) > MAX_LENGTH /\ Len(clause_chunk) > 0
             THEN <<Join(clause_chunk, ", ")>>
                      \o LegacyPackClauses(clauses, k + 1, MAX_LENGTH,
                                           <<clause>>, Len(clause) + 2)
             ELSE LegacyPackClauses(clauses, k + 1, MAX_LENGTH,
                                    Append(clause_chunk, clause),
                                    clause_length + Len(clause) + 2)

RECURSIVE LegacyPackSentences(_, _, _, _, _)
\* BookTranslator.split_into_chunks: the loop over the sentences of a
\* paragraph longer than MAX_LENGTH.
LegacyPackSentences(sentences, k, MAX_LENGTH, temp_chunk, temp_length) ==
    IF k > Len(sentences)
    THEN IF Len(temp_chunk) > 0 THEN <<Join(temp_chunk, " ")>> ELSE <<>>
    ELSE LET sentence == Strip(sentences[k])
             sent_length == Len(sentence)
             flushed == IF Len(temp_chunk) > 0 THEN <<Join(temp_chunk, " ")>> ELSE <<>>
         IN  IF sentence = ""
             THEN LegacyPackSentences(sentences, k + 1, MAX_LENGTH, temp_chunk, temp_length)
             ELSE IF sent_length > MAX_LENGTH
             THEN flushed
                      \o LegacyPackClauses(SplitOn(sentence, ", "), 1, MAX_LENGTH, <<>>, 0)
                      \o LegacyPackSentences(sentences, k + 1, MAX_LENGTH, <<>>, 0)
             ELSE IF temp_length + sent_length > MAX_LENGTH
             THEN flushed
                      \o LegacyPackSentences(sentences, k + 1, MAX_LENGTH,
                                             <<sentence>>, sent_length)
             ELSE LegacyPackSentences(sentences, k + 1, MAX_LENGTH,
                                      Append(temp_chunk, sentence),
                                      temp_length + sent_length + 1)

RECURSIVE LegacyPackParagraphs(_, _, _, _, _)
\* BookTranslator.split_into_chunks: the loop over paragraphs.
LegacyPackParagraphs(paragraphs, k, MAX_LENGTH, current_chunk, current_length) ==
    IF k > Len(paragraphs)
    THEN IF Len(current_chunk) > 0 THEN <<Join(current_chunk, "\n\n")>> ELSE <<>>
    ELSE LET paragraph == Strip(paragraphs[k])
             para_length == Len(paragraph)
             flushed == IF Len(current_chunk) > 0
                        THEN <<Join(current_chunk, "\n\n")>> ELSE <<>>
         IN  IF paragraph = ""
             THEN LegacyPackParagraphs(paragraphs, k + 1, MAX_LENGTH,
                                       current_chunk, current_length)
             ELSE IF para_length + current_length > MAX_LENGTH
             THEN IF para_length > MAX_LENGTH
                  THEN flushed
                           \o LegacyPackSentences(LegacySentenceSplitFrom(paragraph, 1), 1,
                                                  MAX_LENGTH, <<>>, 0)
                           \o LegacyPackParagraphs(paragraphs, k + 1, MAX_LENGTH, <<>>, 0)
                  ELSE flushed
                           \o LegacyPackParagraphs(paragraphs, k + 1, MAX_LENGTH,
                                                   <<paragraph>>, para_length)
             ELSE LegacyPackParagraphs(paragraphs, k + 1, MAX_LENGTH,
                                       Append(current_chunk, paragraph),
                                       current_length + para_length + 2)

\* BookTranslator.split_into_chunks(text) of the single-file application.
\* MAX_LENGTH is a local constant there; it is a parameter here so that
\* texts of a few characters reach the sentence and the clause loops.
legacy_split_into_chunks(text, MAX_LENGTH) ==
    LegacyPackParagraphs(SplitOn(text, "\n\n"), 1, MAX_LENGTH, <<>>, 0)

\* One wrapping pair of quote characters q ... r is dropped.
Unquote(s, q, r) ==
    IF StartsWith(s, q) /\ EndsWith(s, r) THEN SubSeq(s, 2, Len(s) - 1) ELSE s

\* Phase 4 of clean_translation_response: wrapping quotes.
RemoveWrappingQuotes(s) ==
    IF Len(s) > 2
    THEN Unquote(Unquote(Unquote(s, "\"", "\""), "'", "'"), "«", "»")
    ELSE s

\* Lines of the previous chunk longer than this are looked for at the start
\* of the response.
PrevLinesMinLen == 50

\* The last line of the previous chunk is compared when longer than this.
PrevSegmentMinLen == 30

\* At most this many trailing lines of the previous chunk are compared.
PrevLinesMax == 5

\* The compared tail of the last line shrinks by this many characters.
PrevSegmentStep == 10

RECURSIVE StripPrevLines(_, _, _)
\* The loop 'for i in range(min(5, len(prev_lines)))': the first i, from 0
\* up, whose joined last i+1 lines start the translation is stripped.
StripPrevLines(translation, prev_lines, i) ==
    IF i >= Min(PrevLinesMax, Len(prev_lines)) THEN translation
    ELSE LET n == Len(prev_lines)
             check_text == Strip(Join(SubSeq(prev_lines, n - i, n), "\n"))
         IN  IF Len(check_text) > PrevLinesMinLen /\ StartsWith(translation, check_text)
             THEN Strip(SubSeq(translation, Len(check_text) + 1, Len(translation)))
             ELSE StripPrevLines(translation, prev_lines, i + 1)

RECURSIVE StripPrevSegment(_, _, _)
\* The loop 'for check_len in range(len(last_prev_line), 30, -10)'.
StripPrevSegment(translation, last_prev_line, check_len) ==
    IF check_len <= PrevSegmentMinLen THEN translation
    ELSE LET n == Len(last_prev_line)
             check_segment == SubSeq(last_prev_line, n - check_len + 1, n)
         IN  IF StartsWith(translation, check_segment)
             THEN Strip(SubSeq(translation, Len(check_segment) + 1, Len(translation)))
             ELSE StripPrevSegment(translation, last_prev_line, check_len - PrevSegmentStep)

\* Phase 5 of clean_translation_response: repetition of the previous chunk.
RemovePreviousRepetition(translation, previous_chunk) ==
    IF previous_chunk # "" /\ Len(previous_chunk) > PrevLinesMinLen
    THEN LET prev_lines == SplitOn(Strip(previous_chunk), "\n")
             t1 == StripPrevLines(translation, prev_lines, 0)
             last_prev_line == Strip(prev_lines[Len(prev_lines)])
         IN  IF Len(last_prev_line) > PrevSegmentMinLen
             THEN StripPrevSegment(t1, last_prev_line, Len(last_prev_line))
             ELSE t1
    ELSE translation

\* clean_translation_response(translation, previous_chunk).  Phases 1, 4 and
\* 5 are computed as the code computes them.  Phases 2 and 3 delete echoes of
\* the prompt (instruction lines, section headers, "Translation:" prefixes,
\* markdown fences, trailing notes); the model responses used by the
\* orchestrator below contain none of these patterns, on which the two phases
\* leave the text as it is apart from the strip() that ends each of them.
clean_translation_response(translation, previous_chunk) ==
    IF translation = "" THEN ""
    ELSE Strip(RemovePreviousRepetition(
                   RemoveWrappingQuotes(Strip(Strip(RemoveThinkingTags(Strip(translation))))),
                   previous_chunk))


(***************************************************************************)
(* Post-processing of the final text (src/translator.py)                   *)
(***************************************************************************)

\* Paragraphs whose normalized text is shorter than this are never dropped.
DuplicateMinLength == 100

\* The length of the normalized prefix that is the key of a paragraph.
DuplicateKeyLength == 150

RECURSIVE DedupLoop(_, _, _, _)
\* The loop of _remove_duplicate_paragraphs from the paragraph number idx on:
\* seen holds the keys met so far, unique the paragraphs kept so far.
DedupLoop(paragraphs, idx, seen, unique) ==
    IF idx > Len(paragraphs) THEN unique
    ELSE LET para_stripped == Strip(paragraphs[idx])
             normalized == Join(SplitWs(Lower(para_stripped)), " ")
             key == SubSeq(normalized, 1, Min(DuplicateKeyLength, Len(normalized)))
         IN  IF para_stripped = ""
             THEN DedupLoop(paragraphs, idx + 1, seen, unique)
             ELSE IF Len(normalized) < DuplicateMinLength
             THEN DedupLoop(paragraphs, idx + 1, seen, Append(unique, para_stripped))
             ELSE IF key \notin seen
             THEN DedupLoop(paragraphs, idx + 1, seen \cup {key},
                            Append(unique, para_stripped))
             ELSE DedupLoop(paragraphs, idx + 1, seen, unique)

\* BookTranslator._remove_duplicate_paragraphs(text)
remove_duplicate_paragraphs(text) ==
    Join(DedupLoop(SplitOn(text, "\n\n"), 1, {}, <<>>), "\n\n")

\* Paragraphs shorter than this are not examined (word-type languages; 15
\* for character-type languages).
UntranslatedMinLength == 30

\* The mark put before a paragraph that seems untranslated, as the file
\* spells it; a character outside Latin-1 is written ~.
UntranslatedMark == "[~ö~Ô~è POSIBLE TEXTO SIN TRADUCIR]"

\* threshold of _detect_untranslated_content for a paragraph of text_size
\* words (word type) or characters (character type).
UntranslatedThreshold(lang_info, text_size) ==
    IF lang_info.type = "character"
    THEN Max(lang_info.min_markers, Min(10, text_size \div 25))
    ELSE IF text_size < 30 THEN lang_info.min_markers
    ELSE IF text_size < 60 THEN lang_info.min_markers + 2
    ELSE lang_info.min_markers + 4

\* is_suspicious of _detect_untranslated_content: enough markers of the
\* source language and, for word-type languages, a marker in more than 6%
\* of the words.
IsSuspicious(para, source_lang, lang_info) ==
    LET is_asian == lang_info.type = "character"
        marker_count == legacy_detect_language_markers(para, source_lang)
        text_size == IF is_asian THEN Len(para) ELSE Len(SplitWs(para))
    IN  /\ marker_count >= UntranslatedThreshold(lang_info, text_size)
        /\ \/ is_asian
           \/ text_size > 0 /\ marker_count * 100 > 6 * text_size

\* A loop that leaves the paragraphs that seem untranslated out of the text.
DropSuspicious(paragraphs, i, source_lang, cleaned_paragraphs, problematic) ==
    LET paras == SelectSeq([k \in 1..Len(paragraphs) |-> Strip(paragraphs[k])],
                           LAMBDA x : x # "")
        bad(x) == /\ Len(x) >= UntranslatedMinLength
                  /\ IsSuspicious(x, source_lang, LEGACY_LANGUAGE_MARKERS[source_lang])
    IN  [text |-> Join(SelectSeq(paras, LAMBDA x : ~bad(x)), "\n\n"),
         problematic |-> SelectSeq(paras, bad)]

RECURSIVE DetectLoop(_, _, _, _, _)
\* The loop of _detect_untranslated_content from the paragraph number i on.
DetectLoop(paragraphs, i, source_lang, cleaned_paragraphs, problematic) ==
    IF i > Len(paragraphs)
    THEN [text |-> Join(cleaned_paragraphs, "\n\n"), problematic |-> problematic]
    ELSE LET para == Strip(paragraphs[i])
             lang_info == LEGACY_LANGUAGE_MARKERS[source_lang]
             min_length == IF lang_info.type = "character" THEN 15
                           ELSE UntranslatedMinLength
         IN  IF para = ""
             THEN DetectLoop(paragraphs, i + 1, source_lang, cleaned_paragraphs,
                             problematic)
             ELSE IF Len(para) < min_length
             THEN DetectLoop(paragraphs, i + 1, source_lang,
                             Append(cleaned_paragraphs, para), problematic)
             ELSE IF IsSuspicious(para, source_lang, lang_info)
             THEN DetectLoop(paragraphs, i + 1, source_lang,
                             Append(cleaned_paragraphs, UntranslatedMark \o " " \o para),
                             Append(problematic, para))
             ELSE DetectLoop(paragraphs, i + 1, source_lang,
                             Append(cleaned_paragraphs, para), problematic)

\* BookTranslator._detect_untranslated_content(text, source_lang,
\* target_lang): the pair (cleaned_text, problematic).
detect_untranslated_content(text, source_lang, target_lang) ==
    IF source_lang = target_lang THEN [text |-> text, problematic |-> <<>>]
    ELSE IF source_lang \notin DOMAIN LEGACY_LANGUAGE_MARKERS
    THEN [text |-> text, problematic |-> <<>>]
    ELSE DetectLoop(SplitOn(text, "\n\n"), 1, source_lang, <<>>, <<>>)


(***************************************************************************)
(* Configuration, documents and the answers of the language model          *)
(***************************************************************************)

\* config.translation.max_retries (MAX_RETRIES); the shipped default is 3.
MaxRetries == 2

\* config.translation.retry_delay (RETRY_DELAY), in seconds.
RetryDelay == 1

\* A pause that counts the attempts from zero.
SleepOfAttempt(attempt) == RetryDelay * attempt

\* The argument of time.sleep after the failed attempt number `attempt'
\* (counted from zero, as range does): retry_delay * (attempt + 1)
RetrySleep(attempt) == RetryDelay * (attempt + 1)

\* config.translation.max_prompt_length (MAX_PROMPT_LENGTH), the max_length
\* split_into_chunks uses; the shipped default is 4000.
MaxPromptLength == 80

\* config.cache.context_hash_length
ContextHashLength == 32

\* The ids of the translation jobs (rows of the translations table).
Jobs == {1}

SourceLang == "en"

TargetLang == "es"

\* config.ollama.default_model, as OLLAMA_DEFAULT_MODEL may set it.
ModelName == "llama3:8b"

Para1 == "The old house was very big and it had a garden with many trees."

Para2 == "She said that they were happy there and never went away again."

Draft1 == "La casa vieja era muy grande y tenia un jardin con muchos arboles."

Final1 == "La vieja casa era enorme y tenia un jardin lleno de arboles grandes."

\* The uploaded files: a document of two paragraphs, which max_length splits
\* into two chunks, and a document of one paragraph.
Documents == {Para1 \o "\n\n\n" \o Para2 \o "\n", Para1}

\* What OllamaClient.generate can return: a failure (timeout, connection or
\* JSON error) or a success with a text.  The texts: nothing, an echo of the
\* English source, a Spanish translation, and a second Spanish wording
\* preceded by a reasoning block.
ModelTexts ==
    {"", Para1, Draft1, "<think>La casa...</think>\n" \o Final1}

ModelOutcomes ==
    {[success |-> FALSE, text |-> ""]} \cup {[success |-> TRUE, text |-> t] : t \in ModelTexts}

\* The marker that starts the placeholder of a failed chunk.
FailedPrefix == "[TRANSLATION_FAILED"

\* draft.startswith('[TRANSLATION_FAILED')
IsFailed(t) == StartsWith(t, FailedPrefix)

\* The placeholder _translate_chunk_stage1 returns after max_retries
\* attempts: f"[TRANSLATION_FAILED: {chunk[:50]}...]"
FailedPlaceholder(chunk) ==
    "[TRANSLATION_FAILED: " \o SubSeq(chunk, 1, Min(50, Len(chunk))) \o "...]"

\* None, where the code has a str or None.
None == "<None>"

\* Python truthiness of an optional string.
Truthy(t) == t # None /\ t # ""

\* A text in which most of the English source is left untranslated.
Mixed1 == "The old house was very big and it had a garden con muchos arboles."

\* A Spanish rendering of Para1 in which four English words are left.
Mixed2 == "La casa vieja was very big y tenia un jardin with muchos arboles and flores."

\* A text of more than 100 characters with one Spanish and no English marker.
LongOneMarker == "Casa vieja, jardin grande; arboles altos, flores rojas, pajaros azules, caminos largos, cielo claro de verano."

\* The texts cache.db holds when the first job starts (see InitialStores).
StoredTexts == {Draft1, Final1, Para1, Mixed1}

\* normalize_text and split_into_chunks on the documents of this model,
\* computed once.
SplitDocuments ==
    {[text |-> d,
      chunks |-> split_into_chunks(normalize_text(d), MaxPromptLength)] : d \in Documents}

\* split_into_chunks(normalize_text(text), max_prompt_length), looked up.
Chunked(text) == (CHOOSE r \in SplitDocuments : r.text = text).chunks

\* The chunks the documents are split into.
DocumentChunks == UNION {SeqToSet(r.chunks) : r \in SplitDocuments}

\* What a previous draft can be when a response is cleaned: nothing (first
\* chunk, and always in stage 2), a cleaned response, a cached text or the
\* placeholder of a failed chunk.
PreviousDrafts ==
    {""} \cup {clean_translation_response(t, "") : t \in ModelTexts}
         \cup StoredTexts \cup {FailedPlaceholder(c) : c \in DocumentChunks}

\* clean_translation_response on the responses and previous drafts of this
\* model, computed once.
CleanedResponses ==
    {[translation |-> t, previous_chunk |-> p,
      cleaned |-> clean_translation_response(t, p)] : t \in ModelTexts, p \in PreviousDrafts}

\* clean_translation_response(translation, previous_chunk), looked up.
Cleaned(translation, previous_chunk) ==
    (CHOOSE r \in CleanedResponses :
        r.translation = translation /\ r.previous_chunk = previous_chunk).cleaned

\* is_likely_translated on the chunks and candidate translations of this
\* model, computed once.
ValidatorVerdicts ==
    {[original |-> o, translated |-> t,
      verdict |-> is_likely_translated(o, t, SourceLang, TargetLang)] :
        o \in DocumentChunks, t \in {r.cleaned : r \in CleanedResponses} \cup StoredTexts}

\* is_likely_translated(original, translated, source_lang, target_lang),
\* looked up.
Validated(original, translated) ==
    (CHOOSE r \in ValidatorVerdicts :
        r.original = original /\ r.translated = translated).verdict


(***************************************************************************)
(* TranslationCache                                                        *)
(***************************************************************************)

\* hashlib.sha256(key).hexdigest() of a cache key.  SHA-256 is taken to be
\* free of collisions, so a digest is written as its (tagged) preimage.
Sha256Hex(key) == "sha256(" \o key \o ")"

\* TranslationCache._generate_hash
GenerateHash(text, source_lang, target_lang, model, context_hash) ==
    Sha256Hex(text \o ":" \o source_lang \o ":" \o target_lang \o ":" \o model
                  \o ":" \o context_hash)

\* The texts whose digest is taken as a context hash, in a fixed order.
HashedTexts ==
    <<Draft1, Final1, FailedPlaceholder(Para1), FailedPlaceholder(Para2), Para1, Mixed1>>

HexDigits == "123456789abcdef"

RECURSIVE Repeat(_, _)
\* c * n, built by halves.
Repeat(c, n) ==
    IF n = 0 THEN ""
    ELSE IF n = 1 THEN c
    ELSE LET half == Repeat(c, n \div 2)
         IN  half \o half \o (IF n % 2 = 1 THEN c ELSE "")

\* hashlib.sha256(text).hexdigest(): 64 hexadecimal digits, different for
\* different texts (the k-th hashed text gets the k-th digit, 64 times).
HexDigest(text) ==
    LET k == CHOOSE i \in 1..Len(HashedTexts) : HashedTexts[i] = text
    IN  Repeat(CharAt(HexDigits, k), 64)

\* A context hash that ignores the preceding chunk.
SameContextForAll(previous_chunk) == ""

\* BookTranslator._get_context_hash
GetContextHash(previous_chunk) ==
    IF previous_chunk = "" THEN ""
    ELSE SubSeq(HexDigest(previous_chunk), 1, ContextHashLength)

\* The answer of TranslationCache.get: None, or the two texts of the row.
CacheMiss == [hit |-> FALSE, translated_text |-> None, machine_translation |-> None]

\* TranslationCache.get: the value returned for a store c.  enabled is
\* config.cache.enabled, db_error says whether sqlite raised an error.
CacheGet(c, enabled, db_error, text, source_lang, target_lang, model, context_hash) ==
    LET hash_key == GenerateHash(text, source_lang, target_lang, model, context_hash)
    IN  IF ~enabled \/ db_error \/ hash_key \notin DOMAIN c THEN CacheMiss
        ELSE [hit |-> TRUE,
              translated_text |-> c[hash_key].translated_text,
              machine_translation |-> c[hash_key].machine_translation]

\* A row whose two text columns both hold the draft.
DraftInBothColumns(text, translated_text, machine_translation, source_lang, target_lang, model) ==
    [source_lang |-> source_lang, target_lang |-> target_lang,
     original_text |-> text, translated_text |-> machine_translation,
     machine_translation |-> machine_translation, model |-> model]

\* One row of translation_cache as INSERT OR REPLACE writes it.
CacheRow(text, translated_text, machine_translation, source_lang, target_lang, model) ==
    [source_lang |-> source_lang, target_lang |-> target_lang,
     original_text |-> text, translated_text |-> translated_text,
     machine_translation |-> machine_translation, model |-> model]

\* last_used after get's 'UPDATE ... SET last_used = CURRENT_TIMESTAMP WHERE
\* hash_key = ?' on the given day: a row that is not there is not touched.
TouchRow(lu, hash_key, day) ==
    [h \in DOMAIN lu |-> IF h = hash_key THEN day ELSE lu[h]]

\* last_used after set's INSERT OR REPLACE on the given day.
StampRow(lu, hash_key, day) ==
    [h \in DOMAIN lu \cup {hash_key} |-> IF h = hash_key THEN day ELSE lu[h]]

\* An UPDATE of translated_text alone where the row exists already.
ReplaceTextColumn(c, hash_key, r) ==
    [k \in DOMAIN c \cup {hash_key} |->
        IF k # hash_key THEN c[k]
        ELSE IF k \in DOMAIN c THEN [c[k] EXCEPT !.translated_text = r.translated_text]
        ELSE r]

\* INSERT OR REPLACE INTO translation_cache: the row with this hash_key is r
\* afterwards, every other row is as before.
InsertOrReplace(c, hash_key, r) ==
    [k \in DOMAIN c \cup {hash_key} |-> IF k = hash_key THEN r ELSE c[k]]

\* TranslationCache.set: the store after the call.
CacheSet(c, enabled, db_error, text, translated_text, machine_translation, source_lang, target_lang, model, context_hash) ==
    LET hash_key == GenerateHash(text, source_lang, target_lang, model, context_hash)
    IN  IF ~enabled \/ db_error THEN c
        ELSE InsertOrReplace(c, hash_key,
                             CacheRow(text, translated_text, machine_translation,
                                      source_lang, target_lang, model))


(***************************************************************************)
(* State                                                                   *)
(***************************************************************************)

(***************************************************************************)
(* TerminologyManager                                                      *)
(***************************************************************************)

\* A dict of terms is the sequence of its items, in insertion order.
\* original in self.terms
HasTerm(dict, original) == \E i \in 1..Len(dict) : dict[i].original = original

\* self.terms[original]
TermOf(dict, original) ==
    dict[CHOOSE i \in 1..Len(dict) : dict[i].original = original].translated

\* An assignment that moves a known key to the end of the dict.
SetTermLast(dict, original, translated) ==
    SelectSeq(dict, LAMBDA item : item.original # original)
        \o <<[original |-> original, translated |-> translated]>>

\* self.terms[original] = translated: a known key keeps its place and takes
\* the new value, a new key goes to the end.
SetTerm(dict, original, translated) ==
    IF HasTerm(dict, original)
    THEN [i \in 1..Len(dict) |->
              IF dict[i].original = original
              THEN [original |-> original, translated |-> translated]
              ELSE dict[i]]
    ELSE Append(dict, [original |-> original, translated |-> translated])

\* TerminologyManager.get_term(original)
get_term(dict, original) == IF HasTerm(dict, original) THEN TermOf(dict, original) ELSE None

\* A turn that lets the newer rendering win: the item is stored whatever
\* the terms hold and the text is left as it is.
NewerRenderingWins(text, dict, original, translated) ==
    [text |-> text, terms |-> SetTerm(dict, original, translated)]

\* One turn of the loop of ensure_consistency, for the item (original,
\* translated) of chunk_terms: the text and the terms after it.
EnsureStep(text, dict, original, translated) ==
    IF HasTerm(dict, original) /\ TermOf(dict, original) # translated
    THEN [text |-> ReplaceAll(text, translated, TermOf(dict, original)), terms |-> dict]
    ELSE [text |-> text, terms |-> SetTerm(dict, original, translated)]

RECURSIVE EnsureLoop(_, _, _, _)
\* The loop of ensure_consistency from item k of chunk_terms on: the text and
\* the terms after every turn, the last ones being what the call leaves.
EnsureLoop(text, dict, chunk_terms, k) ==
    IF k > Len(chunk_terms) THEN <<>>
    ELSE LET after == EnsureStep(text, dict, chunk_terms[k].original,
                                 chunk_terms[k].translated)
         IN  <<after>> \o EnsureLoop(after.text, after.terms, chunk_terms, k + 1)

\* TerminologyManager.ensure_consistency(text, chunk_terms): the state before
\* the loop followed by the state after each of its turns.
ensure_consistency(text, dict, chunk_terms) ==
    <<[text |-> text, terms |-> dict]>> \o EnsureLoop(text, dict, chunk_terms, 1)

\* The default of max_terms.
DefaultMaxTerms == 20

\* list(...)[-max_terms:]: the last max_terms items; -0 is 0, so with
\* max_terms = 0 the slice is the whole list.
LastItems(items, max_terms) ==
    IF max_terms = 0 \/ max_terms >= Len(items) THEN items
    ELSE SubSeq(items, Len(items) - max_terms + 1, Len(items))

\* f"  - {orig} ... {trans}": the three characters between the terms are
\* those of the source file; the two outside Latin-1 are written ~.
ContextLine(item) == "  - " \o item.original \o " â~~ " \o item.translated

ContextHeader == "TERMINOLOGY (use these translations consistently):"

\* TerminologyManager.get_context_for_prompt(max_terms)
get_context_for_prompt(dict, max_terms) ==
    IF dict = <<>> THEN ""
    ELSE LET terms_list == LastItems(dict, max_terms)
         IN  Join(<<ContextHeader>> \o [i \in 1..Len(terms_list) |-> ContextLine(terms_list[i])], "\n")

\* list(...)[:10] of get_terminology_context
LegacyContextTerms == 10

\* TerminologyManager.get_terminology_context() of src/translator.py
get_terminology_context(dict) ==
    IF dict = <<>> THEN ""
    ELSE LET first == SubSeq(dict, 1, Min(LegacyContextTerms, Len(dict)))
         IN  "Important terms: " \o Join([i \in 1..Len(first) |-> first[i].original \o " -> " \o first[i].translated], ", ")


(***************************************************************************)
(* RateLimiter (api/middleware.py)                                         *)
(***************************************************************************)

\* RATE_LIMIT_PER_MINUTE, the argument of RateLimiter().
RequestsPerMinute == 2

\* window_start = current_time - 60
WindowSeconds == 60

\* time.time() is read in steps of this many seconds, up to MaxTime.
TickSeconds == 30
MaxTicks == 3
MaxTime == MaxTicks * TickSeconds

\* How many requests of the client reach rate_limit.
MaxRequests == 4

\* The threads of the server (app.run(threaded=True)) that handle the
\* requests of one client.
LimiterThreads == {1, 2}

\* A thread outside is_allowed.
IdleThread == [at |-> "idle", current_time |-> 0, kept |-> <<>>, request_count |-> 0]

\* RateLimiter.__init__, for one client id: requests is self.requests[client_id],
\* admitted the current_time of every call that returned True, rejected
\* the number of calls that returned False.
NewLimiter ==
    [requests |-> <<>>,
     thread |-> [t \in LimiterThreads |-> IdleThread],
     time |-> 0,
     begun |-> 0,
     admitted |-> <<>>,
     rejected |-> 0]

\* [ts for ts in self.requests[client_id] if ts > window_start]
InsideWindow(requests, window_start) ==
    SelectSeq(requests, LAMBDA ts : ts > window_start)

VARIABLES
    cache,          \* translation_cache: hash_key -> row
    cache_enabled,  \* config.cache.enabled
    row,            \* translations table: job id -> row
    pc,             \* where the worker thread of each job is
    content,        \* the uploaded text of each job
    chunks,         \* translate_text: chunks
    idx,            \* translate_text: chunk_num of the chunk being worked on
    attempt,        \* _translate_chunk_stage1/2: attempt
    slept,          \* _translate_chunk_stage1/2: the time.sleep calls of the loop
    drafts,         \* translate_text: draft_translations
    finals,         \* translate_text: final_translations
    final_result,   \* run_translation: final_result
    records,        \* the progress records translate_text has yielded
    last_set,       \* the arguments of the last call of TranslationCache.set
    last_get,       \* the arguments of the last call of TranslationCache.get
    origin1,        \* how each draft was obtained
    origin2,        \* how each final text was obtained
    cancel_pc,      \* where the DELETE request of each job is
    cancel_signal,  \* the worker's stage when mark_cancelled first ran for the job
    in_flight,      \* the prompts sent to OllamaClient.generate and not answered yet
    now,            \* CURRENT_TIMESTAMP, in days
    last_used,      \* translation_cache.last_used: hash_key -> day
    client,         \* the threads that call TranslationCache.get directly
    set_last,       \* key tuple -> the last call of set for its entry, if any
    calls,          \* how many calls of get, set, cleanup and clear have begun
    pure_call,      \* a call of a text function on its own: arguments and result
    terms,          \* TerminologyManager.terms, in insertion order
    limiter         \* the RateLimiter, the requests inside is_allowed and the clock

vars == <<cache, cache_enabled, row, pc, content, chunks, idx, attempt, slept, drafts,
          finals, final_result, records, last_set, last_get, origin1, origin2,
          cancel_pc, cancel_signal, in_flight, now, last_used, client, set_last,
          calls, pure_call, terms, limiter>>

\* What the jobs of start_translation never touch, and what the direct
\* callers of TranslationCache never touch.
svcVars == <<now, last_used, client, set_last, calls, pure_call, terms, limiter>>

clientVars == <<now, client, set_last, calls, pure_call, terms, limiter>>

jobVars == <<row, pc, content, chunks, idx, attempt, slept, drafts, finals, final_result,
             records, last_set, last_get, origin1, origin2, cancel_pc, cancel_signal, in_flight,
             pure_call, terms, limiter>>

workerVars == <<pc, content, chunks, idx, attempt, slept, drafts, finals, final_result,
                records, origin1, origin2, in_flight>>

\* f"{self.model_name}_stage1" and f"{self.model_name}_stage2"
Stage1Tag == ModelName \o "_stage1"

Stage2Tag == ModelName \o "_stage2"

\* A store with the given entries; each entry names its key tuple and texts.
StoreOf(entries) ==
    [k \in {GenerateHash(e.text, SourceLang, TargetLang, e.model, e.ctx) : e \in entries} |->
        LET e == CHOOSE x \in entries :
                     GenerateHash(x.text, SourceLang, TargetLang, x.model, x.ctx) = k
        IN  CacheRow(e.text, e.translated, e.machine, SourceLang, TargetLang, e.model)]

\* cache.db when the first job starts.  The file outlives the process and the
\* release that wrote it, and TranslationCache.set stores whatever text it is
\* given: the store is empty, or holds entries the validator accepts, or holds
\* entries the validator of this release turns down (an echo of the source
\* and a text that is mostly English).  No entry is a failure placeholder.
InitialStores ==
    { StoreOf({}),
      StoreOf({[text |-> Para1, model |-> Stage1Tag, ctx |-> "",
                translated |-> Draft1, machine |-> Draft1],
               [text |-> Para1, model |-> Stage2Tag, ctx |-> "",
                translated |-> Final1, machine |-> Draft1]}),
      StoreOf({[text |-> Para1, model |-> Stage1Tag, ctx |-> "",
                translated |-> Para1, machine |-> Para1],
               [text |-> Para1, model |-> Stage2Tag, ctx |-> "",
                translated |-> Mixed1, machine |-> Draft1],
               [text |-> Para2, model |-> Stage2Tag, ctx |-> GetContextHash(Final1),
                translated |-> Final1, machine |-> Draft1]}) }

\* A progress value as the fraction num / den.
Fraction(n, d) == [num |-> n, den |-> d]

\* No row with this id in the translations table.
NoRow ==
    [status |-> "absent", progress |-> Fraction(0, 1), stage |-> None,
     machine_translation |-> None, translated_text |-> None, error_message |-> None]

\* A TranslationProgress record.
Progress(progress, stage, original_text, machine_translation, translated_text, current_chunk, total_chunks) ==
    [progress |-> progress, stage |-> stage, original_text |-> original_text,
     machine_translation |-> machine_translation, translated_text |-> translated_text,
     current_chunk |-> current_chunk, total_chunks |-> total_chunks]

\* progress of a stage 1 record: (chunk_num / (total_chunks * 2)) * 100
Stage1Progress(chunk_num, total_chunks) == Fraction(chunk_num * 100, total_chunks * 2)

\* A stage 2 progress that starts again from zero.
ProgressOfStageAlone(chunk_num, total_chunks) == Fraction(chunk_num * 100, total_chunks * 2)

\* progress of a stage 2 record:
\* ((chunk_num + total_chunks) / (total_chunks * 2)) * 100
Stage2Progress(chunk_num, total_chunks) ==
    Fraction((chunk_num + total_chunks) * 100, total_chunks * 2)

\* The arguments of a call of TranslationCache.set.
SetCall(text, translated_text, machine_translation, model, context_hash) ==
    [text |-> text, translated_text |-> translated_text,
     machine_translation |-> machine_translation, model |-> model,
     context_hash |-> context_hash]

\* The arguments of a call of TranslationCache.get.
GetCall(text, model, context_hash) ==
    [text |-> text, model |-> model, context_hash |-> context_hash]

\* TranslationCache.get has not been called yet.
NoGet == GetCall(None, None, None)

\* TranslationCache.set has not been called yet.
NoSet == SetCall(None, None, None, None, None)

\* final_result = None in run_translation.
NoProgress == Progress(Fraction(0, 1), None, "", "", "", 0, 0)

\* The threads that call get of the one TranslationCache at the same time
\* (the workers of several jobs), while other threads call set, cleanup and
\* clear.
Clients == {1, 2}

\* The last day the clock reaches.
MaxClock == 2

\* The number of calls the clients make.
MaxCalls == 3

\* config.cache.max_age_days, in days of the clock.
MaxAgeDays == 1

\* cleanup(days=None): no argument given.
NoDays == -1

\* The arguments (text, source_lang, target_lang, model, context_hash) that
\* address an entry.
KeyTuple(text, source_lang, target_lang, model, context_hash) ==
    [text |-> text, source_lang |-> source_lang, target_lang |-> target_lang,
     model |-> model, context_hash |-> context_hash]

\* A chunk translated by the model es:8b with no previous chunk; a chunk that
\* ends in ':en', translated by the model 8b; and the first chunk again, after
\* a previous chunk.
PlainKey == KeyTuple("Hola", "en", "fr", "es:8b_stage1", "")

ShiftedKey == KeyTuple("Hola:en", "fr", "es", "8b_stage1", "")

ContextKey == KeyTuple("Hola", "en", "fr", "es:8b_stage1", Repeat("1", ContextHashLength))

KeyTuples == {PlainKey, ShiftedKey, ContextKey}

\* hash_key of a key tuple.
HashOf(k) == GenerateHash(k.text, k.source_lang, k.target_lang, k.model, k.context_hash)

\* The final and the draft text of an entry.
TextPair(translated_text, machine_translation) ==
    [translated_text |-> translated_text, machine_translation |-> machine_translation]

\* The texts the clients store.
Pairs == {TextPair("Bonjour.", "Bonjour"), TextPair("Salut.", "Salut")}

NoPair == TextPair(None, None)

NoKey == KeyTuple(None, None, None, None, None)

\* A call of set: the texts passed, whether the row was stored (the cache
\* was enabled and sqlite raised nothing), and whether it took the place of
\* other texts stored by the call before it.
SetRecord(texts, stored, replaced) ==
    [texts |-> texts, stored |-> stored, replaced |-> replaced]

\* No call of set for the entry since the application started or since the
\* last cleanup or clear.
NoSetRecord == SetRecord(NoPair, FALSE, FALSE)

\* The columns of a row that name the call of set that wrote it.
RowSource(r) ==
    [text |-> r.original_text, source_lang |-> r.source_lang,
     target_lang |-> r.target_lang, model |-> r.model]

NoSource == [text |-> None, source_lang |-> None, target_lang |-> None, model |-> None]

\* A client that has not called get yet.
IdleClient ==
    [pc |-> "idle", key |-> NoKey, hit |-> FALSE, texts |-> NoPair, failed |-> FALSE,
     source |-> NoSource, expect |-> NoSetRecord]

\* The state of TranslationCache's callers when the application starts.
InitService ==
    /\ now = 0
    /\ last_used = [h \in DOMAIN cache |-> 0]
    /\ client = [c \in Clients |-> IdleClient]
    /\ set_last = [k \in KeyTuples |-> NoSetRecord]
    /\ calls = 0

\* The state of the jobs when the application starts: none has been posted.
InitJobs ==
    /\ row = [j \in Jobs |-> NoRow]
    /\ pc = [j \in Jobs |-> "none"]
    /\ content = [j \in Jobs |-> ""]
    /\ chunks = [j \in Jobs |-> <<>>]
    /\ idx = [j \in Jobs |-> 0]
    /\ attempt = [j \in Jobs |-> 0]
    /\ slept = [j \in Jobs |-> <<>>]
    /\ drafts = [j \in Jobs |-> <<>>]
    /\ finals = [j \in Jobs |-> <<>>]
    /\ final_result = [j \in Jobs |-> NoProgress]
    /\ records = [j \in Jobs |-> <<>>]
    /\ last_set = NoSet
    /\ last_get = NoGet
    /\ origin1 = [j \in Jobs |-> <<>>]
    /\ origin2 = [j \in Jobs |-> <<>>]
    /\ cancel_pc = [j \in Jobs |-> "idle"]
    /\ cancel_signal = [j \in Jobs |-> None]
    /\ in_flight = [j \in Jobs |-> <<>>]

\* No text function is being called on its own.
IdleCall == [fn |-> "none", args |-> <<>>, done |-> FALSE, result |-> None]

Init ==
    /\ cache \in InitialStores
    /\ cache_enabled \in BOOLEAN
    /\ InitJobs
    /\ InitService
    /\ pure_call = IdleCall
    /\ terms = <<>>
    /\ limiter = NewLimiter

(***************************************************************************)
(* TranslationRepository                                                   *)
(***************************************************************************)

\* TranslationRepository.create: the new row.
CreatedRow ==
    [status |-> "pending", progress |-> Fraction(0, 1), stage |-> "waiting",
     machine_translation |-> None, translated_text |-> None, error_message |-> None]

\* TranslationRepository.update_progress: the row after the UPDATE.
UpdateProgress(r, progress, stage, machine_translation, translated_text) ==
    IF Truthy(translated_text)
    THEN [r EXCEPT !.progress = progress, !.stage = stage, !.status = "processing",
                   !.machine_translation = machine_translation,
                   !.translated_text = translated_text]
    ELSE IF Truthy(machine_translation)
    THEN [r EXCEPT !.progress = progress, !.stage = stage, !.status = "processing",
                   !.machine_translation = machine_translation]
    ELSE [r EXCEPT !.progress = progress, !.stage = stage, !.status = "processing"]

\* TranslationRepository.mark_completed: the row after the UPDATE.
MarkCompleted(r, translated_text) ==
    [r EXCEPT !.status = "completed", !.progress = Fraction(100, 1),
              !.stage = "completed", !.translated_text = translated_text]

\* An UPDATE that also clears what the job had stored.
MarkFailedAndReset(r, error_message) ==
    [r EXCEPT !.status = "failed", !.error_message = error_message,
              !.progress = Fraction(0, 1), !.machine_translation = None,
              !.translated_text = None]

\* TranslationRepository.mark_failed: the row after the UPDATE.
MarkFailed(r, error_message) ==
    [r EXCEPT !.status = "failed", !.error_message = error_message]

\* TranslationRepository.mark_cancelled: the row after the UPDATE.
MarkCancelled(r) == [r EXCEPT !.status = "cancelled"]


(***************************************************************************)
(* start_translation, run_translation and BookTranslator.translate_text    *)
(***************************************************************************)

\* draft_translations[-1] if draft_translations else ""
LastOrEmpty(q) == IF Len(q) > 0 THEN q[Len(q)] ELSE ""

\* One iteration of 'for progress in translator.translate_text(...)': the
\* record is yielded, stored with update_progress and kept as final_result.
Emit(j, rec) ==
    /\ records' = [records EXCEPT ![j] = Append(@, rec)]
    /\ final_result' = [final_result EXCEPT ![j] = rec]
    /\ row' = [row EXCEPT ![j] = UpdateProgress(@, rec.progress, rec.stage,
                                                rec.machine_translation,
                                                rec.translated_text)]

\* POST /api/translate: the row is created and the worker thread started.
StartTranslation(j, doc) ==
    /\ pc[j] = "none"
    /\ row' = [row EXCEPT ![j] = CreatedRow]
    /\ content' = [content EXCEPT ![j] = doc]
    /\ pc' = [pc EXCEPT ![j] = "begin"]
    /\ UNCHANGED <<cache, cache_enabled, chunks, idx, attempt, slept, drafts, finals,
                   final_result, records, last_set, last_get, origin1, origin2,
                   cancel_pc, cancel_signal, in_flight>>
    /\ UNCHANGED svcVars

\* translate_text up to the first loop: the text is normalised and split.
Begin(j) ==
    /\ pc[j] = "begin"
    /\ chunks' = [chunks EXCEPT ![j] = Chunked(content[j])]
    /\ idx' = [idx EXCEPT ![j] = 1]
    /\ pc' = [pc EXCEPT ![j] = "s1_lookup"]
    /\ UNCHANGED <<cache, cache_enabled, row, content, attempt, slept, drafts, finals,
                   final_result, records, last_set, last_get, origin1, origin2,
                   cancel_pc, cancel_signal, in_flight>>
    /\ UNCHANGED svcVars

\* A retry loop that makes one attempt more than max_retries.
OneAttemptMore(failed) == failed < MaxRetries

\* for attempt in range(config.translation.max_retries): after a failed
\* attempt (the loop variable being failed) the loop goes on when another
\* value of the range is left.
MoreAttempts(failed) == failed + 1 < MaxRetries

\* The end of one stage 1 iteration: the draft is appended, the progress
\* record yielded, and the loop goes to the next chunk or stage 2 begins.
S1Append(j, draft, how) ==
    LET total_chunks == Len(chunks[j])
        chunk_num == idx[j]
        newDrafts == Append(drafts[j], draft)
    IN  /\ drafts' = [drafts EXCEPT ![j] = newDrafts]
        /\ origin1' = [origin1 EXCEPT ![j] = Append(@, how)]
        /\ Emit(j, Progress(Stage1Progress(chunk_num, total_chunks),
                            "primary_translation", Join(chunks[j], "\n\n"),
                            Join(newDrafts, "\n\n"), "", chunk_num, total_chunks * 2))
        /\ attempt' = [attempt EXCEPT ![j] = 0]
        /\ slept' = [slept EXCEPT ![j] = <<>>]
        /\ IF chunk_num < total_chunks
           THEN /\ idx' = [idx EXCEPT ![j] = chunk_num + 1]
                /\ pc' = [pc EXCEPT ![j] = "s1_lookup"]
           ELSE /\ idx' = [idx EXCEPT ![j] = 1]
                /\ pc' = [pc EXCEPT ![j] = "s2_lookup"]

\* The draft a stage 1 cache entry stands for:
\* cached['machine_translation'] or cached['translated_text']
CachedDraft(cached) ==
    IF Truthy(cached.machine_translation)
    THEN cached.machine_translation
    ELSE cached.translated_text

\* A stage 1 cache check that takes whatever entry it finds.
AnyHitUsable(cached, chunk) == cached.hit

\* The test a stage 1 cache answer must pass to be used: an entry was found,
\* its translated_text is no failure placeholder, and the draft it stands
\* for is accepted by the validator.
UsableDraft(cached, chunk) ==
    /\ cached.hit
    /\ ~IsFailed(cached.translated_text)
    /\ Validated(chunk, CachedDraft(cached))

\* Stage 1, cache check of the current chunk: a usable hit ends the
\* iteration, anything else leads to _translate_chunk_stage1.
S1Lookup(j, db_error) ==
    /\ pc[j] = "s1_lookup"
    /\ LET chunk == chunks[j][idx[j]]
           previous_chunk == LastOrEmpty(drafts[j])
           context_hash == GetContextHash(previous_chunk)
           cached == CacheGet(cache, cache_enabled, db_error, chunk, SourceLang,
                              TargetLang, Stage1Tag, context_hash)
       IN  /\ last_get' = GetCall(chunk, Stage1Tag, context_hash)
           /\ last_used' = IF cached.hit
                           THEN TouchRow(last_used,
                                         GenerateHash(chunk, SourceLang, TargetLang,
                                                      Stage1Tag, context_hash), now)
                           ELSE last_used
           /\ IF UsableDraft(cached, chunk)
              THEN S1Append(j, CachedDraft(cached), "cache")
              ELSE /\ pc' = [pc EXCEPT ![j] = "s1_generate"]
                   /\ attempt' = [attempt EXCEPT ![j] = 0]
                   /\ slept' = [slept EXCEPT ![j] = <<>>]
                   /\ UNCHANGED <<row, idx, drafts, final_result, records, origin1>>
    /\ UNCHANGED <<cache, cache_enabled, content, chunks, finals, last_set,
                   origin2, cancel_pc, cancel_signal, in_flight>>
    /\ UNCHANGED clientVars

\* A test before cache.set that lets every text through.
AlwaysCacheable(text) == TRUE

\* The test before cache.set in both stages:
\* not text.startswith('[TRANSLATION_FAILED')
Cacheable(text) == ~IsFailed(text)

\* The end of stage 1 for a chunk that went to the model: a draft that is not
\* a failure placeholder is cached, then the iteration ends as above.
S1Store(j, draft, how, db_error) ==
    LET chunk == chunks[j][idx[j]]
        context_hash == GetContextHash(LastOrEmpty(drafts[j]))
    IN  /\ IF Cacheable(draft)
           THEN /\ cache' = CacheSet(cache, cache_enabled, db_error, chunk, draft, draft,
                                     SourceLang, TargetLang, Stage1Tag, context_hash)
                /\ last_set' = SetCall(chunk, draft, draft, Stage1Tag, context_hash)
                /\ last_used' = IF cache_enabled /\ ~db_error
                                THEN StampRow(last_used,
                                              GenerateHash(chunk, SourceLang, TargetLang,
                                                           Stage1Tag, context_hash), now)
                                ELSE last_used
           ELSE UNCHANGED <<cache, last_set, last_used>>
        /\ S1Append(j, draft, how)

\* What _translate_chunk_stage1 returns when every attempt has failed.
Stage1Exhausted(chunk) == FailedPlaceholder(chunk)

\* context_preview of _build_stage1_prompt: the previous chunk, or its last
\* ContextPreviewLength characters when it is longer.
ContextPreviewLength == 200

ContextPreview(previous_chunk) ==
    IF Len(previous_chunk) > ContextPreviewLength
    THEN SubSeq(previous_chunk, Len(previous_chunk) - ContextPreviewLength + 1,
                Len(previous_chunk))
    ELSE previous_chunk

\* A stage 1 prompt that leaves the previous chunk out.
PromptWithoutContext(text, source_lang, target_lang, previous_chunk) ==
    [stage |-> "stage1", source_lang |-> source_lang, target_lang |-> target_lang,
     text |-> text, context |-> "", draft |-> ""]

\* _build_stage1_prompt: the parts of the prompt that vary, the languages,
\* the context section (empty without a previous chunk) and the text.  The
\* terminology section is empty: nothing adds a term to the manager.
BuildStage1Prompt(text, source_lang, target_lang, previous_chunk) ==
    [stage |-> "stage1", source_lang |-> source_lang, target_lang |-> target_lang,
     text |-> text, context |-> ContextPreview(previous_chunk), draft |-> ""]

\* _build_stage2_prompt: the languages, the original and the draft.
BuildStage2Prompt(original, draft, source_lang, target_lang) ==
    [stage |-> "stage2", source_lang |-> source_lang, target_lang |-> target_lang,
     text |-> original, context |-> "", draft |-> draft]

\* _translate_chunk_stage1 calls self.client.generate(prompt): the request
\* is sent and the worker waits for the answer.
S1Call(j) ==
    /\ pc[j] = "s1_generate"
    /\ in_flight' = [in_flight EXCEPT ![j] =
                        Append(@, BuildStage1Prompt(chunks[j][idx[j]], SourceLang,
                                                    TargetLang, LastOrEmpty(drafts[j])))]
    /\ pc' = [pc EXCEPT ![j] = "s1_wait"]
    /\ UNCHANGED <<cache, cache_enabled, row, content, chunks, idx, attempt, slept, drafts,
                   finals, final_result, records, last_set, last_get, origin1, origin2,
                   cancel_pc, cancel_signal>>
    /\ UNCHANGED svcVars

\* One attempt of _translate_chunk_stage1, from the answer of generate on:
\* an answer that is cleaned and validated ends the loop, a failure or a
\* rejected answer leads to the next attempt or, after max_retries, to the
\* placeholder.
S1Generate(j, outcome, db_error) ==
    /\ pc[j] = "s1_wait"
    /\ in_flight' = [in_flight EXCEPT ![j] = Tail(@)]
    /\ LET chunk == chunks[j][idx[j]]
           previous_chunk == LastOrEmpty(drafts[j])
           cleaned == Cleaned(outcome.text, previous_chunk)
           accepted == /\ outcome.success
                       /\ outcome.text # ""
                       /\ Validated(chunk, cleaned)
       IN  IF accepted
           THEN S1Store(j, cleaned, "model", db_error)
           ELSE IF MoreAttempts(attempt[j])
           THEN /\ attempt' = [attempt EXCEPT ![j] = @ + 1]
                /\ slept' = [slept EXCEPT ![j] = Append(@, RetrySleep(attempt[j]))]
                /\ pc' = [pc EXCEPT ![j] = "s1_generate"]
                /\ UNCHANGED <<cache, last_set, last_used, row, idx, drafts,
                               final_result, records, origin1>>
           ELSE S1Store(j, Stage1Exhausted(chunk), "failed", db_error)
    /\ UNCHANGED <<cache_enabled, last_get, content, chunks, finals, origin2, cancel_pc,
                   cancel_signal>>
    /\ UNCHANGED clientVars

\* A stage 2 iteration that yields no progress record for a chunk served
\* from the cache.
S2AppendUnreported(j, final, how) ==
    LET total_chunks == Len(chunks[j])
        chunk_num == idx[j]
        newFinals == Append(finals[j], final)
    IN  /\ finals' = [finals EXCEPT ![j] = newFinals]
        /\ origin2' = [origin2 EXCEPT ![j] = Append(@, how)]
        /\ IF how = "cache"
           THEN UNCHANGED <<records, final_result, row>>
           ELSE Emit(j, Progress(Stage2Progress(chunk_num, total_chunks),
                                 "reflection_improvement", Join(chunks[j], "\n\n"),
                                 Join(drafts[j], "\n\n"), Join(newFinals, "\n\n"),
                                 chunk_num + total_chunks, total_chunks * 2))
        /\ attempt' = [attempt EXCEPT ![j] = 0]
        /\ slept' = [slept EXCEPT ![j] = <<>>]
        /\ IF chunk_num < total_chunks
           THEN /\ idx' = [idx EXCEPT ![j] = chunk_num + 1]
                /\ pc' = [pc EXCEPT ![j] = "s2_lookup"]
           ELSE /\ idx' = idx
                /\ pc' = [pc EXCEPT ![j] = "complete"]

\* The end of one stage 2 iteration: the final text is appended, the progress
\* record yielded, and the loop goes to the next chunk or ends.
S2Append(j, final, how) ==
    LET total_chunks == Len(chunks[j])
        chunk_num == idx[j]
        newFinals == Append(finals[j], final)
    IN  /\ finals' = [finals EXCEPT ![j] = newFinals]
        /\ origin2' = [origin2 EXCEPT ![j] = Append(@, how)]
        /\ Emit(j, Progress(Stage2Progress(chunk_num, total_chunks),
                            "reflection_improvement", Join(chunks[j], "\n\n"),
                            Join(drafts[j], "\n\n"), Join(newFinals, "\n\n"),
                            chunk_num + total_chunks, total_chunks * 2))
        /\ attempt' = [attempt EXCEPT ![j] = 0]
        /\ slept' = [slept EXCEPT ![j] = <<>>]
        /\ IF chunk_num < total_chunks
           THEN /\ idx' = [idx EXCEPT ![j] = chunk_num + 1]
                /\ pc' = [pc EXCEPT ![j] = "s2_lookup"]
           ELSE /\ idx' = idx
                /\ pc' = [pc EXCEPT ![j] = "complete"]

\* A stage 2 cache check that takes an entry only when its final text is
\* another text than its draft.
UsableIfImproved(cached, chunk) ==
    /\ cached.hit
    /\ ~IsFailed(cached.translated_text)
    /\ Validated(chunk, cached.translated_text)
    /\ cached.translated_text # cached.machine_translation

\* The test a stage 2 cache answer must pass to be used: an entry was found,
\* its translated_text is no failure placeholder and is accepted by the
\* validator.
UsableFinal(cached, chunk) ==
    /\ cached.hit
    /\ ~IsFailed(cached.translated_text)
    /\ Validated(chunk, cached.translated_text)

\* Stage 2, cache check of the current chunk: a usable hit ends the
\* iteration; otherwise a failed draft is passed on without a model call and
\* any other draft goes to _translate_chunk_stage2.
S2Lookup(j, db_error) ==
    /\ pc[j] = "s2_lookup"
    /\ LET chunk == chunks[j][idx[j]]
           draft == drafts[j][idx[j]]
           previous_final == LastOrEmpty(finals[j])
           context_hash == GetContextHash(previous_final)
           cached == CacheGet(cache, cache_enabled, db_error, chunk, SourceLang,
                              TargetLang, Stage2Tag, context_hash)
       IN  /\ last_get' = GetCall(chunk, Stage2Tag, context_hash)
           /\ last_used' = IF cached.hit
                           THEN TouchRow(last_used,
                                         GenerateHash(chunk, SourceLang, TargetLang,
                                                      Stage2Tag, context_hash), now)
                           ELSE last_used
           /\ IF UsableFinal(cached, chunk)
              THEN S2Append(j, cached.translated_text, "cache")
              ELSE IF IsFailed(draft)
              THEN S2Append(j, draft, "skipped")
              ELSE /\ pc' = [pc EXCEPT ![j] = "s2_generate"]
                   /\ attempt' = [attempt EXCEPT ![j] = 0]
                   /\ slept' = [slept EXCEPT ![j] = <<>>]
                   /\ UNCHANGED <<row, idx, finals, final_result, records, origin2>>
    /\ UNCHANGED <<cache, cache_enabled, content, chunks, drafts, last_set,
                   origin1, cancel_pc, cancel_signal, in_flight>>
    /\ UNCHANGED clientVars

\* The end of stage 2 for a chunk that went to the model: a final text that
\* is not a failure placeholder is cached, then the iteration ends as above.
S2Store(j, final, how, db_error) ==
    LET chunk == chunks[j][idx[j]]
        draft == drafts[j][idx[j]]
        context_hash == GetContextHash(LastOrEmpty(finals[j]))
    IN  /\ IF Cacheable(final)
           THEN /\ cache' = CacheSet(cache, cache_enabled, db_error, chunk, final, draft,
                                     SourceLang, TargetLang, Stage2Tag, context_hash)
                /\ last_set' = SetCall(chunk, final, draft, Stage2Tag, context_hash)
                /\ last_used' = IF cache_enabled /\ ~db_error
                                THEN StampRow(last_used,
                                              GenerateHash(chunk, SourceLang, TargetLang,
                                                           Stage2Tag, context_hash), now)
                                ELSE last_used
           ELSE UNCHANGED <<cache, last_set, last_used>>
        /\ S2Append(j, final, how)

\* A stage 2 that gives the chunk up when every attempt has failed.
GivenUp(draft) == FailedPlaceholder(draft)

\* What _translate_chunk_stage2 returns when every attempt has failed: the
\* draft.
Stage2Exhausted(draft) == draft

\* A stage 2 that keeps an answer the validator has rejected.
KeepRejected(draft, cleaned) == cleaned

\* What _translate_chunk_stage2 returns when the validator rejects the
\* cleaned answer: 'return draft'.
Stage2Rejected(draft, cleaned) == draft

\* _translate_chunk_stage2 calls self.client.generate(prompt): the request
\* is sent and the worker waits for the answer.
S2Call(j) ==
    /\ pc[j] = "s2_generate"
    /\ in_flight' = [in_flight EXCEPT ![j] =
                        Append(@, BuildStage2Prompt(chunks[j][idx[j]], drafts[j][idx[j]],
                                                    SourceLang, TargetLang))]
    /\ pc' = [pc EXCEPT ![j] = "s2_wait"]
    /\ UNCHANGED <<cache, cache_enabled, row, content, chunks, idx, attempt, slept, drafts,
                   finals, final_result, records, last_set, last_get, origin1, origin2,
                   cancel_pc, cancel_signal>>
    /\ UNCHANGED svcVars

\* One attempt of _translate_chunk_stage2, from the answer of generate on:
\* an answer is cleaned and, when validated, returned, while a rejected
\* answer returns the draft at once; a failed call leads to the next attempt
\* or, after max_retries, to the draft.
S2Generate(j, outcome, db_error) ==
    /\ pc[j] = "s2_wait"
    /\ in_flight' = [in_flight EXCEPT ![j] = Tail(@)]
    /\ LET chunk == chunks[j][idx[j]]
           draft == drafts[j][idx[j]]
           cleaned == Cleaned(outcome.text, "")
       IN  IF outcome.success /\ outcome.text # ""
           THEN IF Validated(chunk, cleaned)
                THEN S2Store(j, cleaned, "model", db_error)
                ELSE S2Store(j, Stage2Rejected(draft, cleaned), "rejected", db_error)
           ELSE IF MoreAttempts(attempt[j])
           THEN /\ attempt' = [attempt EXCEPT ![j] = @ + 1]
                /\ slept' = [slept EXCEPT ![j] = Append(@, RetrySleep(attempt[j]))]
                /\ pc' = [pc EXCEPT ![j] = "s2_generate"]
                /\ UNCHANGED <<cache, last_set, last_used, row, idx, finals,
                               final_result, records, origin2>>
           ELSE S2Store(j, Stage2Exhausted(draft), "fallback", db_error)
    /\ UNCHANGED <<cache_enabled, last_get, content, chunks, drafts, origin1, cancel_pc,
                   cancel_signal>>
    /\ UNCHANGED clientVars

\* final_text of translate_text: '\n\n'.join(final_translations)
FinalText(final_translations) == Join(final_translations, "\n\n")

\* The last record of translate_text, stage 'completed'.
Complete(j) ==
    /\ pc[j] = "complete"
    /\ LET total_chunks == Len(chunks[j])
       IN  Emit(j, Progress(Fraction(100, 1), "completed", Join(chunks[j], "\n\n"),
                            Join(drafts[j], "\n\n"), FinalText(finals[j]),
                            total_chunks * 2, total_chunks * 2))
    /\ pc' = [pc EXCEPT ![j] = "finish"]
    /\ UNCHANGED <<cache, cache_enabled, content, chunks, idx, attempt, slept, drafts, finals,
                   last_set, last_get, origin1, origin2, cancel_pc, cancel_signal, in_flight>>
    /\ UNCHANGED svcVars

\* str(e) of the OSError write_text raises when the disk is full.
WriteError == "[Errno 28] No space left on device"

\* run_translation after the loop: with a final text the output file is
\* written and the job marked completed; an exception (write_ok is false when
\* write_text raises OSError) or a missing text marks it failed.
Finish(j, write_ok) ==
    /\ pc[j] = "finish"
    /\ row' = [row EXCEPT ![j] =
                  IF final_result[j].stage # None /\ Truthy(final_result[j].translated_text)
                  THEN IF write_ok
                       THEN MarkCompleted(@, final_result[j].translated_text)
                       ELSE MarkFailed(@, WriteError)
                  ELSE MarkFailed(@, "Translation produced no output")]
    /\ pc' = [pc EXCEPT ![j] = "done"]
    /\ UNCHANGED <<cache, cache_enabled, content, chunks, idx, attempt, slept, drafts, finals,
                   final_result, records, last_set, last_get, origin1, origin2,
                   cancel_pc, cancel_signal, in_flight>>
    /\ UNCHANGED svcVars

(***************************************************************************)
(* cancel_translation                                                      *)
(***************************************************************************)

\* The stage of translate_text a worker at position p is in.
StageOf(p) ==
    IF p \in {"s1_lookup", "s1_generate", "s1_wait"} THEN "primary_translation"
    ELSE IF p \in {"s2_lookup", "s2_generate", "s2_wait"} THEN "reflection_improvement"
    ELSE IF p \in {"none", "begin"} THEN "waiting"
    ELSE "completed"

\* DELETE /api/translate/<id>, first part: the row is read and its status
\* checked (a missing row answers 404, a finished job 400, without effect).
CancelCheck(j) ==
    /\ cancel_pc[j] = "idle"
    /\ row[j].status \in {"pending", "processing"}
    /\ cancel_pc' = [cancel_pc EXCEPT ![j] = "mark"]
    /\ UNCHANGED <<cache, cache_enabled, row, workerVars, last_set, last_get, cancel_signal>>
    /\ UNCHANGED svcVars

\* DELETE /api/translate/<id>, second part: repo.mark_cancelled.
CancelMark(j) ==
    /\ cancel_pc[j] = "mark"
    /\ row' = [row EXCEPT ![j] = MarkCancelled(@)]
    /\ cancel_signal' = [cancel_signal EXCEPT ![j] = IF @ = None THEN StageOf(pc[j]) ELSE @]
    /\ cancel_pc' = [cancel_pc EXCEPT ![j] = "idle"]
    /\ UNCHANGED <<cache, cache_enabled, workerVars, last_set, last_get>>
    /\ UNCHANGED svcVars

(***************************************************************************)
(* TranslationCache called by several threads                              *)
(***************************************************************************)

\* A function restricted to the keys in S.
Restrict(f, S) == [x \in S |-> f[x]]

\* get up to the SELECT: with the cache disabled, an sqlite error or no row
\* the call returns None at once; with a row the call goes on to the UPDATE
\* of last_used.  The client remembers the last call of set for the entry
\* and the columns of the row that say which call wrote it.  failed says
\* that the call found the cache disabled or met an sqlite error.
GetSelect(c, k, db_error) ==
    /\ client[c].pc # "touch"
    /\ LET cached == CacheGet(cache, cache_enabled, db_error, k.text, k.source_lang,
                              k.target_lang, k.model, k.context_hash)
       IN  client' = [client EXCEPT ![c] =
                         [pc |-> IF cached.hit THEN "touch" ELSE "returned",
                          key |-> k,
                          hit |-> cached.hit,
                          texts |-> TextPair(cached.translated_text,
                                             cached.machine_translation),
                          failed |-> ~cache_enabled \/ db_error,
                          source |-> IF cached.hit THEN RowSource(cache[HashOf(k)])
                                     ELSE NoSource,
                          expect |-> set_last[k]]]
    /\ calls < MaxCalls
    /\ calls' = calls + 1
    /\ UNCHANGED <<cache, cache_enabled, now, last_used, set_last>>
    /\ UNCHANGED jobVars

\* get from the UPDATE of last_used to the return: the row fetched before is
\* returned, or None when the UPDATE raises an sqlite error.
GetTouch(c, db_error) ==
    /\ client[c].pc = "touch"
    /\ IF db_error
       THEN /\ client' = [client EXCEPT ![c].pc = "returned", ![c].hit = FALSE,
                                        ![c].texts = NoPair, ![c].failed = TRUE,
                                        ![c].source = NoSource]
            /\ UNCHANGED last_used
       ELSE /\ client' = [client EXCEPT ![c].pc = "returned"]
            /\ last_used' = TouchRow(last_used, HashOf(client[c].key), now)
    /\ UNCHANGED <<cache, cache_enabled, now, set_last, calls>>
    /\ UNCHANGED jobVars

\* set: one INSERT OR REPLACE, or nothing with the cache disabled or an
\* sqlite error.  The call is remembered for every key tuple that has the
\* hash_key of k.
SetEntry(k, v, db_error) ==
    /\ LET stored == cache_enabled /\ ~db_error
           h == HashOf(k)
       IN  /\ cache' = CacheSet(cache, cache_enabled, db_error, k.text,
                                v.translated_text, v.machine_translation,
                                k.source_lang, k.target_lang, k.model, k.context_hash)
           /\ last_used' = IF stored THEN StampRow(last_used, h, now) ELSE last_used
           /\ set_last' = [x \in KeyTuples |->
                              IF x = k
                              THEN SetRecord(v, stored,
                                             /\ stored
                                             /\ set_last[k].stored
                                             /\ set_last[k].texts # v)
                              ELSE IF HashOf(x) = h THEN NoSetRecord
                              ELSE set_last[x]]
    /\ calls < MaxCalls
    /\ calls' = calls + 1
    /\ UNCHANGED <<cache_enabled, now, client>>
    /\ UNCHANGED jobVars

\* days = days or config.cache.max_age_days
EffectiveDays(days) == IF days = NoDays \/ days = 0 THEN MaxAgeDays ELSE days

\* cleanup: the rows last used before the limit are deleted.
CleanupRows(days, db_error) ==
    /\ LET kept == {h \in DOMAIN cache : ~(last_used[h] < now - EffectiveDays(days))}
       IN  IF db_error
           THEN UNCHANGED <<cache, last_used>>
           ELSE /\ cache' = Restrict(cache, kept)
                /\ last_used' = Restrict(last_used, kept)
    /\ set_last' = [k \in KeyTuples |-> NoSetRecord]
    /\ calls < MaxCalls
    /\ calls' = calls + 1
    /\ UNCHANGED <<cache_enabled, now, client>>

\* TranslationCache.cleanup(days)
Cleanup(days, db_error) ==
    /\ CleanupRows(days, db_error)
    /\ UNCHANGED jobVars

\* TranslationCache.cleanup(days), the call written down: its argument, the
\* number of the call and whether sqlite3 raised.
CleanupCall(days, db_error) ==
    /\ CleanupRows(days, db_error)
    /\ pure_call' = [fn |-> "cleanup",
                     args |-> [days |-> days, call |-> calls],
                     done |-> TRUE,
                     result |-> IF db_error THEN "sqlite3.Error" ELSE None]
    /\ UNCHANGED <<row, pc, content, chunks, idx, attempt, slept, drafts, finals,
                   final_result, records, last_set, last_get, origin1, origin2,
                   cancel_pc, cancel_signal, in_flight, terms, limiter>>

\* clear: every row is deleted.
Clear(db_error) ==
    /\ IF db_error
       THEN UNCHANGED <<cache, last_used>>
       ELSE /\ cache' = Restrict(cache, {})
            /\ last_used' = Restrict(last_used, {})
    /\ set_last' = [k \in KeyTuples |-> NoSetRecord]
    /\ calls < MaxCalls
    /\ calls' = calls + 1
    /\ UNCHANGED <<cache_enabled, now, client>>
    /\ UNCHANGED jobVars

\* A day passes.
Tick ==
    /\ now < MaxClock
    /\ now' = now + 1
    /\ UNCHANGED <<cache, cache_enabled, last_used, client, set_last, calls>>
    /\ UNCHANGED jobVars

Next ==
    \/ \E j \in Jobs, doc \in Documents : StartTranslation(j, doc)
    \/ \E j \in Jobs : Begin(j)
    \/ \E j \in Jobs, db_error \in BOOLEAN : S1Lookup(j, db_error)
    \/ \E j \in Jobs, outcome \in ModelOutcomes, db_error \in BOOLEAN :
           S1Generate(j, outcome, db_error)
    \/ \E j \in Jobs : S1Call(j)
    \/ \E j \in Jobs : S2Call(j)
    \/ \E j \in Jobs, db_error \in BOOLEAN : S2Lookup(j, db_error)
    \/ \E j \in Jobs, outcome \in ModelOutcomes, db_error \in BOOLEAN :
           S2Generate(j, outcome, db_error)
    \/ \E j \in Jobs : Complete(j)
    \/ \E j \in Jobs, write_ok \in BOOLEAN : Finish(j, write_ok)
    \/ \E j \in Jobs : CancelCheck(j)
    \/ \E j \in Jobs : CancelMark(j)

Spec == Init /\ [][Next]_vars

\* start_translation for the file of job j once more, after the job has
\* ended: a new job with a new BookTranslator and the same cache takes the
\* place of the first, whose document and texts are written down.  The file
\* is posted again only after a job none of whose chunks failed.
Rerun(j) ==
    /\ pc[j] = "done"
    /\ pure_call = IdleCall
    /\ \A i \in 1..Len(chunks[j]) : ~IsFailed(drafts[j][i]) /\ ~IsFailed(finals[j][i])
    /\ pure_call' = [fn |-> "translate_text",
                     args |-> [text |-> content[j]],
                     done |-> TRUE,
                     result |-> [chunks |-> chunks[j], drafts |-> drafts[j],
                                 finals |-> finals[j]]]
    /\ row' = [row EXCEPT ![j] = CreatedRow]
    /\ pc' = [pc EXCEPT ![j] = "begin"]
    /\ chunks' = [chunks EXCEPT ![j] = <<>>]
    /\ idx' = [idx EXCEPT ![j] = 0]
    /\ attempt' = [attempt EXCEPT ![j] = 0]
    /\ slept' = [slept EXCEPT ![j] = <<>>]
    /\ drafts' = [drafts EXCEPT ![j] = <<>>]
    /\ finals' = [finals EXCEPT ![j] = <<>>]
    /\ final_result' = [final_result EXCEPT ![j] = NoProgress]
    /\ records' = [records EXCEPT ![j] = <<>>]
    /\ origin1' = [origin1 EXCEPT ![j] = <<>>]
    /\ origin2' = [origin2 EXCEPT ![j] = <<>>]
    /\ in_flight' = [in_flight EXCEPT ![j] = <<>>]
    /\ last_set' = NoSet
    /\ last_get' = NoGet
    /\ UNCHANGED <<cache, cache_enabled, content, cancel_pc, cancel_signal, now,
                   last_used, client, set_last, calls, terms, limiter>>

\* A job, and a second job for the same document after it; no DELETE request.
NextRerun ==
    \/ \E j \in Jobs, doc \in Documents : StartTranslation(j, doc)
    \/ \E j \in Jobs : Begin(j)
    \/ \E j \in Jobs, db_error \in BOOLEAN : S1Lookup(j, db_error)
    \/ \E j \in Jobs, outcome \in ModelOutcomes, db_error \in BOOLEAN :
           S1Generate(j, outcome, db_error)
    \/ \E j \in Jobs : S1Call(j)
    \/ \E j \in Jobs : S2Call(j)
    \/ \E j \in Jobs, db_error \in BOOLEAN : S2Lookup(j, db_error)
    \/ \E j \in Jobs, outcome \in ModelOutcomes, db_error \in BOOLEAN :
           S2Generate(j, outcome, db_error)
    \/ \E j \in Jobs : Complete(j)
    \/ \E j \in Jobs, write_ok \in BOOLEAN : Finish(j, write_ok)
    \/ \E j \in Jobs : Rerun(j)

\* The cache enabled, with what earlier jobs left in it.
InitRerun ==
    /\ cache \in InitialStores
    /\ cache_enabled = TRUE
    /\ InitJobs
    /\ InitService
    /\ pure_call = IdleCall
    /\ terms = <<>>
    /\ limiter = NewLimiter

SpecRerun == InitRerun /\ [][NextRerun]_vars


\* A step of the worker thread of job j: run_translation and the generator
\* translate_text it consumes.
WorkerStep(j) ==
    \/ Begin(j)
    \/ \E db_error \in BOOLEAN : S1Lookup(j, db_error)
    \/ S1Call(j)
    \/ \E outcome \in ModelOutcomes, db_error \in BOOLEAN : S1Generate(j, outcome, db_error)
    \/ \E db_error \in BOOLEAN : S2Lookup(j, db_error)
    \/ S2Call(j)
    \/ \E outcome \in ModelOutcomes, db_error \in BOOLEAN : S2Generate(j, outcome, db_error)
    \/ Complete(j)
    \/ \E write_ok \in BOOLEAN : Finish(j, write_ok)

\* The jobs with a worker thread that is scheduled again and again and a
\* model client whose every call returns, with an answer or, at its timeout,
\* with a failure; no DELETE request (it does not stop the worker).
NextWorker ==
    \/ \E j \in Jobs, doc \in Documents : StartTranslation(j, doc)
    \/ \E j \in Jobs : WorkerStep(j)

SpecLive == Init /\ [][NextWorker]_vars /\ \A j \in Jobs : WF_vars(WorkerStep(j))

\* A new cache.db and no job: only the direct callers of TranslationCache run.
InitCache ==
    /\ cache = StoreOf({})
    /\ cache_enabled \in BOOLEAN
    /\ InitJobs
    /\ InitService
    /\ pure_call = IdleCall
    /\ terms = <<>>
    /\ limiter = NewLimiter

NextCache ==
    \/ \E c \in Clients, k \in KeyTuples, db_error \in BOOLEAN : GetSelect(c, k, db_error)
    \/ \E c \in Clients, db_error \in BOOLEAN : GetTouch(c, db_error)
    \/ \E k \in KeyTuples, v \in Pairs, db_error \in BOOLEAN : SetEntry(k, v, db_error)
    \/ \E days \in {NoDays, 0, 1}, db_error \in BOOLEAN : Cleanup(days, db_error)
    \/ \E db_error \in BOOLEAN : Clear(db_error)
    \/ Tick

SpecCache == InitCache /\ [][NextCache]_vars

\* The days the callers of cleanup pass: none, and 0 to 2.
CleanupDays == {NoDays, 0, 1, 2}

\* The cache with every cleanup call written down.
NextCleanup ==
    \/ \E c \in Clients, k \in KeyTuples, db_error \in BOOLEAN : GetSelect(c, k, db_error)
    \/ \E c \in Clients, db_error \in BOOLEAN : GetTouch(c, db_error)
    \/ \E k \in KeyTuples, v \in Pairs, db_error \in BOOLEAN : SetEntry(k, v, db_error)
    \/ \E days \in CleanupDays, db_error \in BOOLEAN : CleanupCall(days, db_error)
    \/ Tick

SpecCleanup == InitCache /\ [][NextCleanup]_vars


(***************************************************************************)
(* The text functions called on their own                                  *)
(***************************************************************************)

\* Everything but pure_call: a call of a text function touches no job, no
\* cache and no client.
programVars == <<cache, cache_enabled, row, pc, content, chunks, idx, attempt, slept,
                 drafts, finals, final_result, records, last_set, last_get, origin1, origin2,
                 cancel_pc, cancel_signal, in_flight, now, last_used, client,
                 set_last, calls>>

\* A new cache.db, no job and no client.
InitProgram ==
    /\ cache = StoreOf({})
    /\ cache_enabled = TRUE
    /\ InitJobs
    /\ InitService
    /\ terms = <<>>
    /\ limiter = NewLimiter

\* The two implementations of the segmenter: the function of the package and
\* the method of the single-file application.
SplitImpls == {"split_into_chunks", "BookTranslator.split_into_chunks"}

\* Texts given to the segmenter: empty and blank ones, paragraphs, sentences
\* that start with and without a capital letter, comma clauses, an empty
\* clause, and runs of blank lines and of spaces.
SplitTexts ==
    { "",
      "  \n\n ",
      "One.\n\nTwo.",
      "One.\n\nTwo.\n\nSix.",
      "Aa bb. Cc dd. Ee ff.",
      "aaa, bbb, ccc ddd",
      "Go on. and so. On",
      "Ab cd.\n\n\nEf, gh, ij. Kl!\n",
      "abcdefghijkl",
      "abcdef, , ghijk",
      "Ab.  Cd." }

\* The values of max_length (of MAX_LENGTH) the segmenter is called with.
SplitLimits == {3, 5, 8, 9, 12, 40}

SplitCalls ==
    { [fn |-> f, args |-> [text |-> t, max_length |-> m], done |-> FALSE, result |-> <<>>] :
          f \in SplitImpls, t \in SplitTexts, m \in SplitLimits }

InitSplit ==
    /\ InitProgram
    /\ pure_call \in SplitCalls

\* What the implementation named fn returns.
SplitResult(fn, text, max_length) ==
    IF fn = "split_into_chunks"
    THEN split_into_chunks(text, max_length)
    ELSE legacy_split_into_chunks(text, max_length)

\* The segmenter runs on its arguments and returns.
CallSplit ==
    /\ pure_call.fn \in SplitImpls
    /\ ~pure_call.done
    /\ pure_call' = [pure_call EXCEPT
                         !.done = TRUE,
                         !.result = SplitResult(pure_call.fn, pure_call.args.text,
                                                pure_call.args.max_length)]
    /\ UNCHANGED <<programVars, terms, limiter>>

NextSplit == CallSplit

SpecSplit == InitSplit /\ [][NextSplit]_vars

\* The languages the validator is called with.
ValidatorLangs == {"en", "es"}

\* Originals given to the validator: empty, short and long ones.
ValidatorOriginals ==
    { "",
      "Hello",
      "Hello world",
      "The house is old.",
      "This is a test sentence with enough words to trigger detection.",
      Para1 }

\* Candidate translations given to the validator: empty, short, the originals
\* themselves, a translation and a half-translated text.
ValidatorCandidates ==
    { "",
      "Hola",
      "Hello world modified",
      "The house is old.",
      "This is a test sentence with enough words to trigger detection.",
      Para1,
      Draft1,
      Mixed1,
      Mixed2,
      LongOneMarker }

\* The two validators: the one of the package and the one of src/translator.py.
ValidatorImpls == {"is_likely_translated", "_is_likely_translated"}

ValidatorCalls ==
    { [fn |-> f,
       args |-> [original |-> o, translated |-> t, source_lang |-> s, target_lang |-> g],
       done |-> FALSE, result |-> FALSE] :
          f \in ValidatorImpls, o \in ValidatorOriginals, t \in ValidatorCandidates,
          s \in ValidatorLangs, g \in ValidatorLangs }

InitValidator ==
    /\ InitProgram
    /\ pure_call \in ValidatorCalls

\* The validator runs on its arguments and returns.
CallValidator ==
    /\ pure_call.fn = "is_likely_translated"
    /\ ~pure_call.done
    /\ pure_call' = [pure_call EXCEPT
                         !.done = TRUE,
                         !.result = is_likely_translated(pure_call.args.original,
                                                         pure_call.args.translated,
                                                         pure_call.args.source_lang,
                                                         pure_call.args.target_lang)]
    /\ UNCHANGED <<programVars, terms, limiter>>

\* The validator of src/translator.py runs on its arguments and returns.
CallLegacyValidator ==
    /\ pure_call.fn = "_is_likely_translated"
    /\ ~pure_call.done
    /\ pure_call' = [pure_call EXCEPT
                         !.done = TRUE,
                         !.result = legacy_is_likely_translated(pure_call.args.original,
                                                                pure_call.args.translated,
                                                                pure_call.args.source_lang,
                                                                pure_call.args.target_lang)]
    /\ UNCHANGED <<programVars, terms, limiter>>

NextValidator == CallValidator \/ CallLegacyValidator

SpecValidator == InitValidator /\ [][NextValidator]_vars

\* Raw responses given to the sanitizer: plain text, each kind of reasoning
\* block (closed, in capitals, in the middle, at the end, several, nested,
\* empty), tags that are never closed, tags that appear only once a block
\* between their pieces is removed, and wrapping quotes of each kind, single
\* and double.
CleanResponses ==
    { "",
      "   ",
      "Bonjour le monde.",
      "  Bonjour le monde.\n",
      "<think>reasoning</think>Bonjour le monde.",
      "<think>Let me think about this...</think>Bonjour le monde.",
      "<thinking>Processing...</thinking>Bonjour le monde.",
      "<reasoning>because</reasoning>Bonjour le monde.",
      "<reflection>hmm</reflection>Bonjour le monde.",
      "<THINK>Reasoning</THINK>\nBonjour le monde.",
      "<Thinking>a\nb</Thinking>\n\nBonjour le monde.",
      "Bonjour le monde.<think>after</think>",
      "Bonjour <think>mid</think>le monde.",
      "<think>a</think>Bonjour<think>b</think> le monde.",
      "<think>a</think><reasoning>b</reasoning>Bonjour le monde.",
      "Bonjour le monde.\n<think>cut off",
      "Bonjour le monde. <thinking>cut off\nmore",
      "<think>only",
      "Bonjour le monde.\n<reasoning>cut off",
      "Bonjour le monde.</think>",
      "<think>a<think>b</think>c</think>Bonjour le monde.",
      "<reasoning><reflection>x</reflection>y</reasoning>Bonjour le monde.",
      "<reasoning<reflection>x</reflection>>why</reasoning>Bonjour le monde.",
      "<reflection>x</reflection<reflection>y</reflection>>Bonjour le monde.",
      "<th<reasoning>x</reasoning>ink>why</think>Bonjour le monde.",
      "<think></think>Bonjour le monde.",
      "<think>x</think>",
      "\"Bonjour le monde.\"",
      "'Bonjour le monde.'",
      "«Bonjour le monde.»",
      "\"\"Bonjour le monde.\"\"",
      "\"'Bonjour le monde.'\"",
      "\"«Bonjour», dit-il.\"",
      "«Bonjour le monde.\"",
      "\"a\"",
      "\"\"",
      "\"ab\"",
      "\"Bonjour le monde.",
      "<think>x</think>\"Bonjour le monde.\"",
      "\"<think>x</think>Bonjour le monde.\"",
      "\"Bonjour le monde.\"<think>x",
      "Il a dit: \"Bonjour\"",
      "Bonjour le monde.\n\nAu revoir." }

\* Previous chunks given to the sanitizer: one line, two different lines,
\* the same line three times, a short last line, and a chunk too short to be
\* compared.
CleanPrevious ==
    { Draft1,
      Draft1 \o "\n" \o Final1,
      Draft1 \o "\n" \o Draft1 \o "\n" \o Draft1,
      Draft1 \o "\nFin del dia.",
      "Fin del dia." }

\* What follows the repeated text in a response.
CleanNewText == "Nadie volvio a verla."

\* Responses that repeat the end of the previous chunk: its last line, its
\* last two or three lines, the last 46 characters of its last line, the last
\* line followed by its last 46 characters, or nothing.
CleanRepeating(prev) ==
    LET lines == SplitOn(prev, "\n")
        n == Len(lines)
        last == lines[n]
        tail == SubSeq(last, Len(last) - Min(46, Len(last)) + 1, Len(last))
    IN  { CleanNewText,
          last \o "\n" \o CleanNewText,
          prev \o "\n" \o CleanNewText,
          Join(SubSeq(lines, Max(1, n - 1), n), "\n") \o " " \o CleanNewText,
          tail \o " " \o CleanNewText,
          last \o "\n" \o tail \o " " \o CleanNewText }

CleanCalls ==
    { [fn |-> "clean_translation_response",
       args |-> [translation |-> x, previous_chunk |-> ""],
       done |-> FALSE, result |-> <<>>] : x \in CleanResponses }
    \cup
    UNION { { [fn |-> "clean_translation_response",
               args |-> [translation |-> x, previous_chunk |-> prev],
               done |-> FALSE, result |-> <<>>] : x \in CleanRepeating(prev) } :
            prev \in CleanPrevious }

InitClean ==
    /\ InitProgram
    /\ pure_call \in CleanCalls

\* The sanitizer runs on the raw response and returns.
CallClean ==
    /\ pure_call.fn = "clean_translation_response"
    /\ ~pure_call.done
    /\ pure_call' = [pure_call EXCEPT
                         !.done = TRUE,
                         !.result = <<clean_translation_response(
                                          pure_call.args.translation,
                                          pure_call.args.previous_chunk)>>]
    /\ UNCHANGED <<programVars, terms, limiter>>

\* The sanitizer runs once more, on what it returned.
CallCleanAgain ==
    /\ pure_call.fn = "clean_translation_response"
    /\ pure_call.done
    /\ Len(pure_call.result) = 1
    /\ pure_call' = [pure_call EXCEPT
                         !.result = Append(@, clean_translation_response(
                                                  pure_call.result[1],
                                                  pure_call.args.previous_chunk))]
    /\ UNCHANGED <<programVars, terms, limiter>>

NextClean ==
    \/ CallClean
    \/ CallCleanAgain

SpecClean == InitClean /\ [][NextClean]_vars


(***************************************************************************)
(* One TerminologyManager and its callers                                  *)
(***************************************************************************)

\* The source terms the callers know of.
TermOriginals == {"York", "Eboracum"}

\* The renderings the callers give them; one is part of another.
TermRenderings == {"York", "Nueva York", "Jorvik"}

\* The texts ensure_consistency is called with.
TermTexts == {"Fue a York.", "De Jorvik a York y a Nueva York.", "Nada."}

TermItem(original, translated) == [original |-> original, translated |-> translated]

\* The dicts given as chunk_terms: no item, one item, or two items with
\* different keys, in either order.
ChunkTerms ==
    {<<>>}
        \cup { <<TermItem(o, t)>> : o \in TermOriginals, t \in TermRenderings }
        \cup { ct \in { <<TermItem(o1, t1), TermItem(o2, t2)>> :
                              o1 \in TermOriginals, o2 \in TermOriginals,
                              t1 \in TermRenderings, t2 \in TermRenderings } :
                   ct[1].original # ct[2].original }

\* A new TerminologyManager: no term, no call yet.
InitTerms ==
    /\ InitProgram
    /\ pure_call = IdleCall

\* add_term(original, translated)
AddTerm(original, translated) ==
    /\ terms' = SetTerm(terms, original, translated)
    /\ pure_call' = [fn |-> "add_term",
                     args |-> [original |-> original, translated |-> translated,
                               terms |-> terms],
                     done |-> TRUE, result |-> None]
    /\ UNCHANGED <<programVars, limiter>>

\* ensure_consistency(text, chunk_terms): the call returns the last text of
\* the loop and leaves its last terms; steps keeps the text after each turn.
EnsureConsistency(text, chunk_terms) ==
    LET steps == ensure_consistency(text, terms, chunk_terms)
    IN  /\ terms' = steps[Len(steps)].terms
        /\ pure_call' = [fn |-> "ensure_consistency",
                         args |-> [text |-> text, chunk_terms |-> chunk_terms,
                                   terms |-> terms],
                         done |-> TRUE,
                         result |-> steps[Len(steps)].text,
                         steps |-> [k \in 1..Len(steps) |-> steps[k].text]]
        /\ UNCHANGED <<programVars, limiter>>

NextTerms ==
    \/ \E o \in TermOriginals, t \in TermRenderings : AddTerm(o, t)
    \/ \E text \in TermTexts, chunk_terms \in ChunkTerms :
           EnsureConsistency(text, chunk_terms)

SpecTerms == InitTerms /\ [][NextTerms]_vars


(***************************************************************************)
(* The terminology section of the prompts                                  *)
(***************************************************************************)

\* The longest list of writes drawn freely.
MaxWrites == 3

\* The values of max_terms the callers pass.
MaxTermsArgs == {0, 1, 2, DefaultMaxTerms}

ContextOriginals == {"York", "Eboracum", "Thames"}

ContextRenderings == {"York", "Jorvik"}

\* Eleven terms, one more than get_terminology_context lists.
ElevenWrites == [i \in 1..(LegacyContextTerms + 1) |-> TermItem("T" \o ToString(i), "t" \o ToString(i))]

\* The add_term calls made before the context is asked for.
ContextWrites ==
    UNION { [1..n -> {TermItem(o, t) : o \in ContextOriginals, t \in ContextRenderings}] : n \in 0..MaxWrites }
        \cup {ElevenWrites}

RECURSIVE AfterWrites(_, _, _)
\* The terms of a new TerminologyManager after add_term for writes k, k+1, ...
AfterWrites(dict, writes, k) ==
    IF k > Len(writes) THEN dict
    ELSE AfterWrites(SetTerm(dict, writes[k].original, writes[k].translated), writes, k + 1)

ContextCalls ==
    { [fn |-> "get_context_for_prompt",
       args |-> [writes |-> w, max_terms |-> m],
       done |-> FALSE, result |-> None] : w \in ContextWrites, m \in MaxTermsArgs }
    \cup
    { [fn |-> "get_terminology_context",
       args |-> [writes |-> w, max_terms |-> LegacyContextTerms],
       done |-> FALSE, result |-> None] : w \in ContextWrites }

InitContext ==
    /\ InitProgram
    /\ pure_call \in ContextCalls

\* The add_term calls, then get_context_for_prompt(max_terms).
CallContextForPrompt ==
    /\ pure_call.fn = "get_context_for_prompt"
    /\ ~pure_call.done
    /\ terms' = AfterWrites(terms, pure_call.args.writes, 1)
    /\ pure_call' = [pure_call EXCEPT
                         !.done = TRUE,
                         !.result = get_context_for_prompt(terms', pure_call.args.max_terms)]
    /\ UNCHANGED <<programVars, limiter>>

\* The add_term calls, then get_terminology_context() of src/translator.py.
CallTerminologyContext ==
    /\ pure_call.fn = "get_terminology_context"
    /\ ~pure_call.done
    /\ terms' = AfterWrites(terms, pure_call.args.writes, 1)
    /\ pure_call' = [pure_call EXCEPT
                         !.done = TRUE,
                         !.result = get_terminology_context(terms')]
    /\ UNCHANGED <<programVars, limiter>>

NextContext ==
    \/ CallContextForPrompt
    \/ CallTerminologyContext

SpecContext == InitContext /\ [][NextContext]_vars

\* last_progress = -1 of stream_translation.
NoProgressSent == Fraction(-1, 1)

\* current_progress != last_progress, on the values of the fractions.
ProgressDiffers(a, b) == a.num * b.den # b.num * a.den

\* The statuses that end the loop of stream_translation.
StreamEndStatuses == {"completed", "failed", "cancelled"}

\* GET /api/translate/<id>/stream: the generator is created; the statuses of
\* the events it has yielded are kept in result.
StreamOpen(j) ==
    /\ pure_call = IdleCall
    /\ pure_call' = [fn |-> "stream_translation",
                     args |-> [translation_id |-> j],
                     done |-> FALSE,
                     result |-> {},
                     last_progress |-> NoProgressSent]
    /\ UNCHANGED <<programVars, terms, limiter>>

\* One turn of the loop of generate(): the row is read, an event is yielded
\* when its progress is not the last one sent, and the loop ends on a row
\* that is missing or has a final status.
StreamPoll(j) ==
    /\ pure_call.fn = "stream_translation"
    /\ pure_call.args.translation_id = j
    /\ ~pure_call.done
    /\ LET translation == row[j]
       IN  IF translation.status = "absent"
           THEN pure_call' = [pure_call EXCEPT !.result = @ \cup {"error"}, !.done = TRUE]
           ELSE pure_call' =
                    [pure_call EXCEPT
                        !.result = IF ProgressDiffers(translation.progress, pure_call.last_progress)
                                   THEN @ \cup {translation.status}
                                   ELSE @,
                        !.last_progress = translation.progress,
                        !.done = translation.status \in StreamEndStatuses]
    /\ UNCHANGED <<programVars, terms, limiter>>

\* A job, DELETE requests for it and a client that follows it on the stream.
NextStream ==
    \/ \E j \in Jobs, doc \in Documents : StartTranslation(j, doc)
    \/ \E j \in Jobs : WorkerStep(j)
    \/ \E j \in Jobs : CancelCheck(j)
    \/ \E j \in Jobs : CancelMark(j)
    \/ \E j \in Jobs : StreamOpen(j)
    \/ \E j \in Jobs : StreamPoll(j)

InitStream ==
    /\ InitProgram
    /\ pure_call = IdleCall

SpecStream == InitStream /\ [][NextStream]_vars

\* What the limiter's steps leave alone.
notLimiter == <<programVars, pure_call, terms>>

\* A thread at a place of is_allowed.
ThreadAt(t, at) == limiter.thread[t].at = at

\* rate_limit calls is_allowed: client_id and current_time = time.time().
LimiterEnter(t) ==
    /\ ThreadAt(t, "idle")
    /\ limiter.begun < MaxRequests
    /\ limiter' = [limiter EXCEPT !.begun = @ + 1,
                                  !.thread[t].at = "cleanup",
                                  !.thread[t].current_time = limiter.time]
    /\ UNCHANGED notLimiter

\* _cleanup_old_requests: the list comprehension reads the list.
LimiterFilter(t) ==
    /\ ThreadAt(t, "cleanup")
    /\ limiter' = [limiter EXCEPT
                       !.thread[t].at = "store",
                       !.thread[t].kept =
                           InsideWindow(limiter.requests,
                                        limiter.thread[t].current_time - WindowSeconds)]
    /\ UNCHANGED notLimiter

\* _cleanup_old_requests: self.requests[client_id] = the filtered list.
LimiterStore(t) ==
    /\ ThreadAt(t, "store")
    /\ limiter' = [limiter EXCEPT !.requests = limiter.thread[t].kept,
                                  !.thread[t].at = "count",
                                  !.thread[t].kept = <<>>]
    /\ UNCHANGED notLimiter

\* request_count = len(self.requests[client_id])
LimiterCount(t) ==
    /\ ThreadAt(t, "count")
    /\ limiter' = [limiter EXCEPT !.thread[t].at = "check",
                                  !.thread[t].request_count = Len(limiter.requests)]
    /\ UNCHANGED notLimiter

\* if request_count >= self.requests_per_minute: return False, {...}
LimiterReject(t) ==
    /\ ThreadAt(t, "check")
    /\ limiter.thread[t].request_count >= RequestsPerMinute
    /\ limiter' = [limiter EXCEPT !.rejected = @ + 1,
                                  !.thread[t] = IdleThread]
    /\ UNCHANGED notLimiter

\* self.requests[client_id].append(current_time); return True, {...}
LimiterAdmit(t) ==
    /\ ThreadAt(t, "check")
    /\ limiter.thread[t].request_count < RequestsPerMinute
    /\ limiter' = [limiter EXCEPT
                       !.requests = Append(@, limiter.thread[t].current_time),
                       !.admitted = Append(@, limiter.thread[t].current_time),
                       !.thread[t] = IdleThread]
    /\ UNCHANGED notLimiter

\* Time passes.
LimiterTick ==
    /\ limiter.time < MaxTime
    /\ limiter' = [limiter EXCEPT !.time = @ + TickSeconds]
    /\ UNCHANGED notLimiter

\* The requests of one client, handled by the threads of the server.
NextLimiter ==
    \/ \E t \in LimiterThreads : LimiterEnter(t)
    \/ \E t \in LimiterThreads : LimiterFilter(t)
    \/ \E t \in LimiterThreads : LimiterStore(t)
    \/ \E t \in LimiterThreads : LimiterCount(t)
    \/ \E t \in LimiterThreads : LimiterReject(t)
    \/ \E t \in LimiterThreads : LimiterAdmit(t)
    \/ LimiterTick

InitLimiter ==
    /\ InitProgram
    /\ pure_call = IdleCall

SpecLimiter == InitLimiter /\ [][NextLimiter]_vars


(***************************************************************************)
(* The final text of a job and its post-processing                         *)
(***************************************************************************)

\* A paragraph of 135 characters.
LongA == Draft1 \o " " \o Final1

\* LongA in other letter case and spacing.
LongB == "LA  CASA vieja era muy grande y tenia un jardin con muchos arboles.  La vieja casa era enorme y tenia un jardin lleno de arboles grandes."

\* Two paragraphs that differ after their first 150 characters.
LongC == LongA \o " y mas alla del rio grande."

LongD == LongA \o " y mas alla del mar azul."

\* The final texts of the chunks of a job: translations, short and long, and
\* a paragraph left in English.
PostTexts == {LongA, LongB, LongC, LongD, Draft1, Para1, "Hola."}

\* The lists of final texts: every list of one or two texts and some of three.
PostFinals ==
    {<<a>> : a \in PostTexts} \cup {<<a, b>> : a, b \in PostTexts}
        \cup {<<LongA, Draft1, LongB>>, <<LongC, Para1, LongD>>,
              <<Draft1, Draft1, Draft1>>, <<LongD, LongA, LongC>>,
              <<Para1, LongA, LongA>>, <<Para1, LongA, Draft1>>}

\* The source languages of the jobs; the target language is TargetLang.
PostLangs == {"en", "es", "xx"}

PostCalls ==
    { [fn |-> "translate_text",
       args |-> [final_translations |-> q, source_lang |-> SourceLang,
                 target_lang |-> TargetLang],
       done |-> FALSE, result |-> None] : q \in PostFinals }
    \cup
    { [fn |-> "_remove_duplicate_paragraphs",
       args |-> [final_translations |-> q, source_lang |-> s,
                 target_lang |-> TargetLang],
       done |-> FALSE, result |-> None] : q \in PostFinals, s \in PostLangs }

InitPost ==
    /\ InitProgram
    /\ pure_call \in PostCalls

\* translate_text of the package builds the text of the 'completed' record.
CallFinalText ==
    /\ pure_call.fn = "translate_text"
    /\ ~pure_call.done
    /\ pure_call' = [pure_call EXCEPT
                         !.done = TRUE,
                         !.result = FinalText(pure_call.args.final_translations)]
    /\ UNCHANGED <<programVars, terms, limiter>>

\* translate_text of src/translator.py joins the final texts and calls
\* _remove_duplicate_paragraphs.
CallRemoveDuplicates ==
    /\ pure_call.fn = "_remove_duplicate_paragraphs"
    /\ ~pure_call.done
    /\ pure_call' = [pure_call EXCEPT
                         !.done = TRUE,
                         !.result = remove_duplicate_paragraphs(
                                        Join(pure_call.args.final_translations, "\n\n"))]
    /\ UNCHANGED <<programVars, terms, limiter>>

\* translate_text of src/translator.py then calls
\* _detect_untranslated_content on the text it got.
CallDetectUntranslated ==
    /\ pure_call.fn = "_remove_duplicate_paragraphs"
    /\ pure_call.done
    /\ pure_call' = [fn |-> "_detect_untranslated_content",
                     args |-> [text |-> pure_call.result,
                               source_lang |-> pure_call.args.source_lang,
                               target_lang |-> pure_call.args.target_lang],
                     done |-> TRUE,
                     result |-> detect_untranslated_content(pure_call.result,
                                                            pure_call.args.source_lang,
                                                            pure_call.args.target_lang)]
    /\ UNCHANGED <<programVars, terms, limiter>>

NextPost ==
    \/ CallFinalText
    \/ CallRemoveDuplicates
    \/ CallDetectUntranslated

SpecPost == InitPost /\ [][NextPost]_vars


(***************************************************************************)
(* Properties of the orchestrator                                          *)
(***************************************************************************)

\* Stage 1 has used up its attempts for some chunk of job j.
Stage1Failed(j) == \E i \in 1..Len(origin1[j]) : origin1[j][i] = "failed"

\* Job j has yielded a record of stage 'completed'.
CompletedEmitted(j) == \E i \in 1..Len(records[j]) : records[j][i].stage = "completed"

\* C1: when stage 1 of some chunk uses up all max_retries attempts without
\* an accepted answer, the job ends failed: no stage 2 model call is issued
\* for any chunk, no 'completed' progress record is emitted, and the stored
\* status becomes failed (or cancelled, on a DELETE request) with an error
\* message.
Stage1ExhaustionFailsJob ==
    \A j \in Jobs :
        Stage1Failed(j) =>
            /\ pc[j] \notin {"s2_generate", "s2_wait"}
            /\ ~CompletedEmitted(j)
            /\ pc[j] = "done" =>
                   \/ row[j].status = "cancelled"
                   \/ row[j].status = "failed" /\ Truthy(row[j].error_message)

\* The step calls ModelClient.generate for job j.
GenerateCalled(j) ==
    /\ pc[j] \in {"s1_generate", "s2_generate"}
    /\ pc'[j] \in {"s1_wait", "s2_wait"}

\* mark_cancelled ran for job j while stage 1 or stage 2 was running.
CancelledWhileRunning(j) ==
    cancel_signal[j] \in {"primary_translation", "reflection_improvement"}

\* C2: once a job has received the cancellation signal during stage 1 or
\* stage 2, no step calls ModelClient.generate for it and no step appends a
\* chunk result to its draft or final sequence.
CancelStopsWorker ==
    [][\A j \in Jobs :
          CancelledWhileRunning(j) =>
              /\ ~GenerateCalled(j)
              /\ drafts'[j] = drafts[j]
              /\ finals'[j] = finals[j]]_vars

\* C3: a job whose status is cancelled keeps that status in every step of
\* the worker (update_progress, mark_completed, mark_failed) and of the
\* DELETE request.
CancelledIsFinal ==
    [][\A j \in Jobs :
          row[j].status = "cancelled" => row'[j].status = "cancelled"]_vars

\* The entry the store holds for the chunk job j works on, in stage 1 and in
\* stage 2, when the cache is enabled and sqlite raises nothing.
StoredDraft(j) ==
    CacheGet(cache, cache_enabled, FALSE, chunks[j][idx[j]], SourceLang, TargetLang,
             Stage1Tag, GetContextHash(LastOrEmpty(drafts[j])))

StoredFinal(j) ==
    CacheGet(cache, cache_enabled, FALSE, chunks[j][idx[j]], SourceLang, TargetLang,
             Stage2Tag, GetContextHash(LastOrEmpty(finals[j])))

\* Text t, taken from entry cached, may stand for the translation of chunk:
\* the entry exists, neither its translated_text nor t is a failure
\* placeholder, and the validator accepts t for the chunk.
GoodFor(cached, t, chunk) ==
    /\ cached.hit
    /\ ~IsFailed(cached.translated_text)
    /\ ~IsFailed(t)
    /\ Validated(chunk, t)

\* The step is the cache check of stage 1 (stage 2) for job j.
IsS1Lookup(j) ==
    pc[j] = "s1_lookup" /\ (pc'[j] # pc[j] \/ drafts'[j] # drafts[j])

IsS2Lookup(j) ==
    pc[j] = "s2_lookup" /\ (pc'[j] # pc[j] \/ finals'[j] # finals[j])

NoSentinelCached ==
    /\ ~IsFailed(last_set.translated_text)
    /\ ~IsFailed(last_set.machine_translation)
    /\ \A k \in DOMAIN cache :
           /\ ~IsFailed(cache[k].translated_text)
           /\ ~IsFailed(cache[k].machine_translation)

\* A job has come to its end with a chunk whose stage 1 failed, and the
\* store has been written to on the way.
FailedChunkBesideCachedOnes ==
    \E j \in Jobs :
        /\ pc[j] = "done"
        /\ Stage1Failed(j)
        /\ cache_enabled
        /\ last_set # NoSet

\* C6: a job whose status is completed has no failure placeholder as the
\* final text of a chunk, nor anywhere in its stored translated_text.
CompletedHasNoSentinel ==
    \A j \in Jobs :
        row[j].status = "completed" =>
            /\ \A i \in 1..Len(finals[j]) : ~IsFailed(finals[j][i])
            /\ FindFrom(row[j].translated_text, FailedPrefix, 1) = 0

\* Chunk i of job j got its final text from the draft after every stage 2
\* attempt had failed.
FellBack(j, i) == i \in 1..Len(origin2[j]) /\ origin2[j][i] = "fallback"

\* C7: a chunk whose stage 2 attempts have all failed, and whose draft the
\* validator accepts, has that draft as its final text, and the job does not
\* fail for it: the worker goes on, and at its end the status is completed
\* unless the output file could not be written or the job was cancelled.
Stage2ExhaustionKeepsDraft ==
    \A j \in Jobs :
        \A i \in 1..Len(finals[j]) :
            (FellBack(j, i) /\ Validated(chunks[j][i], drafts[j][i])) =>
                /\ finals[j][i] = drafts[j][i]
                /\ pc[j] \in {"s2_lookup", "s2_generate", "s2_wait", "complete", "finish",
                            "done"}
                /\ pc[j] = "done" =>
                       \/ row[j].status \in {"completed", "cancelled"}
                       \/ row[j].status = "failed" /\ row[j].error_message = WriteError

\* A job is completed although stage 2 fell back to the draft for a chunk.
CompletedAfterFallback ==
    \E j \in Jobs :
        /\ row[j].status = "completed"
        /\ \E i \in 1..Len(finals[j]) :
               /\ FellBack(j, i)
               /\ Validated(chunks[j][i], drafts[j][i])
               /\ finals[j][i] = drafts[j][i]

\* The stage and the chunk number of the k-th progress record of a document
\* of n chunks: n records of stage 1, n of stage 2, one of completion.
ExpectedStage(k, n) ==
    IF k <= n THEN "primary_translation"
    ELSE IF k <= 2 * n THEN "reflection_improvement"
    ELSE "completed"

ExpectedChunk(k, n) == IF k <= 2 * n THEN k ELSE 2 * n

SequentialPipeline ==
    \A j \in Jobs :
        LET n == Len(chunks[j])
        IN  /\ Len(in_flight[j]) <= 1
            /\ in_flight[j] # <<>> => pc[j] \in {"s1_wait", "s2_wait"}
            /\ StageOf(pc[j]) = "primary_translation" =>
                   /\ idx[j] \in 1..n
                   /\ Len(drafts[j]) = idx[j] - 1
                   /\ finals[j] = <<>>
            /\ StageOf(pc[j]) = "reflection_improvement" =>
                   /\ idx[j] \in 1..n
                   /\ Len(drafts[j]) = n
                   /\ Len(finals[j]) = idx[j] - 1
            /\ finals[j] # <<>> => Len(drafts[j]) = n
            /\ \A k \in 1..Len(in_flight[j]) :
                   LET r == in_flight[j][k]
                   IN  IF r.stage = "stage1"
                       THEN /\ pc[j] = "s1_wait"
                            /\ r.text = chunks[j][idx[j]]
                            /\ r.context = IF idx[j] = 1 THEN ""
                                           ELSE ContextPreview(drafts[j][idx[j] - 1])
                       ELSE /\ pc[j] = "s2_wait"
                            /\ r.text = chunks[j][idx[j]]
                            /\ r.draft = drafts[j][idx[j]]

\* The stage 1 call for the second chunk of a job is unanswered, and its
\* prompt holds the draft of the first chunk.
SecondChunkPromptInFlight ==
    \E j \in Jobs :
        /\ pc[j] = "s1_wait"
        /\ idx[j] = 2
        /\ Len(in_flight[j]) = 1
        /\ in_flight[j][1].context = drafts[j][1]
        /\ drafts[j][1] # ""

\* The step marks job j failed.
BecomesFailed(j) == row[j].status # "failed" /\ row'[j].status = "failed"

\* C22: the step that marks a job failed records an error message and leaves
\* the stored progress, draft text and final text as they were; a job that
\* is failed never becomes completed.
FailureKeepsStoredProgress ==
    [][\A j \in Jobs :
           /\ BecomesFailed(j) =>
                  /\ Truthy(row'[j].error_message)
                  /\ row'[j].progress = row[j].progress
                  /\ row'[j].machine_translation = row[j].machine_translation
                  /\ row'[j].translated_text = row[j].translated_text
           /\ row[j].status = "failed" => row'[j].status # "completed"]_vars

\* A job has been marked failed with the draft and the final text of its
\* chunks stored.
FailedWithStoredTexts ==
    \E j \in Jobs :
        /\ row[j].status = "failed"
        /\ Truthy(row[j].error_message)
        /\ Truthy(row[j].machine_translation)
        /\ Truthy(row[j].translated_text)
        /\ row[j].progress # Fraction(0, 1)

\* The step ends stage 2 of a chunk of job j with the draft in place of an
\* answer of the model.
FallsBackToDraft(j) ==
    /\ pc[j] = "s2_wait"
    /\ Len(origin2'[j]) = Len(origin2[j]) + 1
    /\ origin2'[j][Len(origin2'[j])] \in {"rejected", "fallback"}

\* C23: in stage 2 an answer the validator rejects is retried as in stage 1:
\* the draft takes the place of the answer only when max_retries attempts
\* have been used for the chunk.
Stage2RejectionRetried ==
    [][\A j \in Jobs : FallsBackToDraft(j) => attempt[j] + 1 >= MaxRetries]_vars

\* The worker is inside the retry loop of one chunk.
InRetryLoop(j) == pc[j] \in {"s1_generate", "s1_wait", "s2_generate", "s2_wait"}

\* The pauses made before the attempt with index n: retry_delay * k before
\* the attempt number k + 1.
PausesBefore(n) == [k \in 1..n |-> RetryDelay * k]

\* The answer of generate sends the worker to another attempt on the same chunk.
TriesAgain(j) ==
    /\ pc[j] \in {"s1_wait", "s2_wait"}
    /\ pc'[j] \in {"s1_generate", "s2_generate"}

ContextOf(results, i) ==
    IF i = 1 THEN "" ELSE SubSeq(HexDigest(results[i - 1]), 1, ContextHashLength)

\* The worker of job j ends an iteration of the stage whose origins are given
\* with a text that came about in the way `how'.
EndsChunk(origin, j, how) ==
    /\ Len(origin'[j]) = Len(origin[j]) + 1
    /\ origin'[j][Len(origin'[j])] = how

\* The worker of job j leaves the cache check of a chunk.
LeavesLookup(j, at) ==
    /\ pc[j] = at
    /\ pc'[j] # pc[j] \/ idx'[j] # idx[j]

\* The context hashes a lookup can carry.
Contexts == {""} \cup {GetContextHash(HashedTexts[k]) : k \in 1..Len(HashedTexts)}

\* C25: for every chunk, cache.get and cache.set of stage 1 use the hash of
\* the preceding chunk's draft (empty for the first chunk) and the tag
\* model + "_stage1", those of stage 2 the hash of the preceding chunk's
\* final text and model + "_stage2"; a text taken from the cache is the one
\* stored under exactly that key, and no key of one stage is a key of the
\* other.
ContextKeyedByStage ==
    /\ [][\A j \in Jobs :
            LET chunk == chunks[j][idx[j]]
                ctx1 == ContextOf(drafts[j], idx[j])
                ctx2 == ContextOf(finals[j], idx[j])
                key1 == GenerateHash(chunk, SourceLang, TargetLang, Stage1Tag, ctx1)
                key2 == GenerateHash(chunk, SourceLang, TargetLang, Stage2Tag, ctx2)
            IN  /\ LeavesLookup(j, "s1_lookup") =>
                       last_get' = GetCall(chunk, Stage1Tag, ctx1)
                /\ LeavesLookup(j, "s2_lookup") =>
                       last_get' = GetCall(chunk, Stage2Tag, ctx2)
                /\ EndsChunk(origin1, j, "model") =>
                       /\ last_get = GetCall(chunk, Stage1Tag, ctx1)
                       /\ last_set' = SetCall(chunk, drafts'[j][idx[j]],
                                              drafts'[j][idx[j]], Stage1Tag, ctx1)
                /\ (\E how \in {"model", "rejected", "fallback"} :
                        EndsChunk(origin2, j, how)) =>
                       /\ last_get = GetCall(chunk, Stage2Tag, ctx2)
                       /\ last_set' = SetCall(chunk, finals'[j][idx[j]],
                                              drafts[j][idx[j]], Stage2Tag, ctx2)
                /\ EndsChunk(origin1, j, "cache") =>
                       /\ key1 \in DOMAIN cache
                       /\ cache[key1].model = Stage1Tag
                       /\ cache[key1].original_text = chunk
                       /\ drafts'[j][idx[j]] \in {cache[key1].machine_translation,
                                                  cache[key1].translated_text}
                /\ EndsChunk(origin2, j, "cache") =>
                       /\ key2 \in DOMAIN cache
                       /\ cache[key2].model = Stage2Tag
                       /\ cache[key2].original_text = chunk
                       /\ finals'[j][idx[j]] = cache[key2].translated_text]_vars
    /\ [](\A k \in DOMAIN cache : \A c \in Contexts :
            LET r == cache[k]
            IN  /\ k = GenerateHash(r.original_text, r.source_lang, r.target_lang,
                                    Stage1Tag, c) => r.model = Stage1Tag
                /\ k = GenerateHash(r.original_text, r.source_lang, r.target_lang,
                                    Stage2Tag, c) => r.model = Stage2Tag)

\* The second chunk's final text has been written to the cache under the
\* hash of the first chunk's final text, after a lookup with the same key.
SecondFinalStoredWithContext ==
    \E j \in Jobs :
        /\ Len(finals[j]) = 2
        /\ last_set.model = Stage2Tag
        /\ last_set.text = chunks[j][2]
        /\ last_set.context_hash = ContextOf(finals[j], 2)
        /\ last_set.context_hash # ""
        /\ last_get = GetCall(last_set.text, Stage2Tag, last_set.context_hash)

\* The stage 2 iteration of job j begins for a chunk whose draft is a failure
\* placeholder.
Stage2OfFailedDraft(j) ==
    /\ pc[j] = "s2_lookup"
    /\ IsFailed(drafts[j][idx[j]])
    /\ LeavesLookup(j, "s2_lookup")

\* C26: for a chunk whose draft is a failure placeholder, stage 2 calls
\* generate not once, and the final text of the chunk is that placeholder.
FailedDraftSkipsStage2 ==
    [][\A j \in Jobs :
          Stage2OfFailedDraft(j) =>
              /\ pc'[j] # "s2_generate"
              /\ in_flight'[j] = in_flight[j]
              /\ finals'[j] = Append(finals[j], drafts[j][idx[j]])]_vars

\* Stage 2 has passed a failure placeholder on without a call of generate.
PlaceholderPassedOn ==
    \E j \in Jobs : \E i \in 1..Len(finals[j]) :
        /\ origin2[j][i] = "skipped"
        /\ IsFailed(drafts[j][i])
        /\ finals[j][i] = drafts[j][i]

\* Comparison of two progress values.
FracLess(a, b) == a.num * b.den < b.num * a.den

FracIs(a, n) == a.num = n * a.den

\* C27: with N chunks, the stage 1 record of chunk c carries the progress
\* c / (2N) * 100 and the stage 2 record of chunk c carries
\* (c + N) / (2N) * 100; the progress grows strictly from one stage record
\* to the next, lies between 0 and 100, is 50 at the last stage 1 record and
\* 100 at the last stage 2 record and at completion.
ProgressByChunkAndStage ==
    \A j \in Jobs :
        LET n == Len(chunks[j])
            recs == records[j]
        IN  \A k \in 1..Len(recs) :
                /\ recs[k].stage = "primary_translation" =>
                       LET c == recs[k].current_chunk
                       IN  /\ c \in 1..n
                           /\ recs[k].progress.num * 2 * n = c * 100 * recs[k].progress.den
                /\ recs[k].stage = "reflection_improvement" =>
                       LET c == recs[k].current_chunk - n
                       IN  /\ c \in 1..n
                           /\ recs[k].progress.num * 2 * n =
                                  (c + n) * 100 * recs[k].progress.den
                /\ recs[k].progress.den > 0
                /\ ~FracLess(recs[k].progress, Fraction(0, 1))
                /\ ~FracLess(Fraction(100, 1), recs[k].progress)
                /\ (k > 1 /\ recs[k].stage # "completed") =>
                       FracLess(recs[k - 1].progress, recs[k].progress)
                /\ (recs[k].stage = "primary_translation" /\ recs[k].current_chunk = n) =>
                       FracIs(recs[k].progress, 50)
                /\ (recs[k].stage = "reflection_improvement"
                        /\ recs[k].current_chunk = 2 * n) =>
                       FracIs(recs[k].progress, 100)
                /\ recs[k].stage = "completed" => FracIs(recs[k].progress, 100)

\* A document of two chunks has yielded all its records: 25, 50, 75, 100
\* and the record of completion.
AllRecordsOfTwoChunks ==
    \E j \in Jobs :
        /\ Len(chunks[j]) = 2
        /\ Len(records[j]) = 5
        /\ FracIs(records[j][1].progress, 25)
        /\ FracIs(records[j][3].progress, 75)
        /\ records[j][5].stage = "completed"

(***************************************************************************)
(* Properties of TranslationCache                                          *)
(***************************************************************************)

\* The final and the draft text of a row.
RowTexts(r) == TextPair(r.translated_text, r.machine_translation)

\* C8: with several threads calling get and set on the same key, a get that
\* finds a row returns the two texts of one call of set, a get that finds
\* none returns no text, and every row of the store holds the two texts of
\* one call of set.
GetReturnsOneWrite ==
    /\ \A c \in Clients :
           IF client[c].hit THEN client[c].texts \in Pairs
           ELSE client[c].texts = NoPair
    /\ \A h \in DOMAIN cache : RowTexts(cache[h]) \in Pairs

\* A get has read a row and, before it returns, another thread has replaced
\* the texts of that row.
SetBetweenSelectAndReturn ==
    \E c \in Clients :
        /\ client[c].pc = "touch"
        /\ HashOf(client[c].key) \in DOMAIN cache
        /\ client[c].texts \in Pairs
        /\ RowTexts(cache[HashOf(client[c].key)]) \in Pairs \ {client[c].texts}

\* C9: key tuples that differ in a component address different entries: the
\* row a get returns was stored by a set with the text, the languages and
\* the model of that get.
TuplesNeverShareEntry ==
    \A c \in Clients :
        client[c].hit =>
            client[c].source = [text |-> client[c].key.text,
                                source_lang |-> client[c].key.source_lang,
                                target_lang |-> client[c].key.target_lang,
                                model |-> client[c].key.model]

SplitReturned == pure_call.fn \in SplitImpls /\ pure_call.done

\* A sentence ends at position i of the text: '.', '!' or '?' followed by
\* whitespace and then a capital letter.
SentenceEndsAt(chunk, i) ==
    /\ CharAt(chunk, i) \in {".", "!", "?"}
    /\ IsWs(CharAt(chunk, i + 1))
    /\ i + 1 + WsRun(chunk, i + 1) <= Len(chunk)
    /\ IsUpper(CharAt(chunk, i + 1 + WsRun(chunk, i + 1)))

\* The text can be divided further: it has a paragraph break, a sentence
\* boundary or a comma boundary.
Divisible(chunk) ==
    \/ FindFrom(chunk, "\n\n", 1) > 0
    \/ FindFrom(chunk, ", ", 1) > 0
    \/ \E i \in 1..(Len(chunk) - 1) : SentenceEndsAt(chunk, i)

\* C13: every chunk the segmenter returns is at most max_length long, unless
\* it is one sentence or clause with no sentence or comma boundary left in
\* it.  (A blank text returned as the only chunk is not counted.)
SegmentationBound ==
    SplitReturned =>
        \A i \in 1..Len(pure_call.result) :
            \/ Len(pure_call.result[i]) <= pure_call.args.max_length
            \/ ~Divisible(pure_call.result[i])
            \/ Strip(pure_call.result[i]) = ""

\* ' '.join(text.split()): runs of whitespace become one space, those at the
\* two ends are dropped.
CollapseWhitespace(text) == Join(SplitWs(text), " ")

\* C14: the chunks joined in order with a blank line between them are, up to
\* whitespace, the text that was given: nothing is lost and nothing is
\* reordered, whichever of the paragraph, sentence and clause loops ran.
SegmentationRoundTrip ==
    SplitReturned =>
        CollapseWhitespace(Join(pure_call.result, "\n\n"))
            = CollapseWhitespace(pure_call.args.text)

\* C15: the segmenter returns at least one chunk; no chunk is empty when the
\* text has a paragraph that is not blank; the empty text comes back as the
\* one chunk.
SegmentationNeverEmpty ==
    SplitReturned =>
        /\ Len(pure_call.result) >= 1
        /\ Strip(pure_call.args.text) # "" =>
               \A i \in 1..Len(pure_call.result) : pure_call.result[i] # ""
        /\ pure_call.args.text = "" => pure_call.result = <<"">>

(***************************************************************************)
(* Properties of the validator                                             *)
(***************************************************************************)

\* A call of the validator has returned.
ValidatorReturned == pure_call.fn = "is_likely_translated" /\ pure_call.done

\* The call was for a translation between two different languages.
CrossLanguage == pure_call.args.source_lang # pure_call.args.target_lang

\* The candidate translation is the original, character for character.
Echoed == pure_call.args.translated = pure_call.args.original

\* C16: a candidate translation identical to the original is rejected when
\* the source and the target language differ, whatever its length: the
\* validator returns false for "The house is old." given as its own
\* translation from en to es.
IdenticalTextRejected ==
    (ValidatorReturned /\ CrossLanguage /\ Echoed) => ~pure_call.result

\* C16 with the length it depends on: between different languages, an
\* identical candidate is rejected when it is empty or has ShortTextLimit
\* characters or more, and accepted when it is shorter and not empty.
IdenticalTextRejectedWhenLong ==
    (ValidatorReturned /\ CrossLanguage /\ Echoed) =>
        (pure_call.result <=>
            /\ pure_call.args.translated # ""
            /\ Len(pure_call.args.translated) < ShortTextLimit)

\* The validator has rejected a text of more than ShortTextLimit characters
\* given as its own translation into another language.
LongEchoRejected ==
    /\ ValidatorReturned
    /\ CrossLanguage
    /\ Echoed
    /\ Len(pure_call.args.translated) >= ShortTextLimit
    /\ ~pure_call.result

\* The validator has accepted "The house is old." as its own translation
\* from en to es.
ShortEchoAccepted ==
    /\ ValidatorReturned
    /\ pure_call.args = [original |-> "The house is old.", translated |-> "The house is old.",
                         source_lang |-> "en", target_lang |-> "es"]
    /\ pure_call.result

AnyValidatorReturned == pure_call.fn \in ValidatorImpls /\ pure_call.done

\* The number of markers of a language the validator called finds in a text.
MarkersFound(fn, text, lang) ==
    IF fn = "is_likely_translated" THEN detect_language_markers(text, lang).count
    ELSE legacy_detect_language_markers(text, lang)

\* The rejection threshold of rule 6 for a translation of n words (word
\* type) or n characters (character type).
RejectionThreshold(type, min_markers, n) ==
    IF type = "word" THEN Max(min_markers + 3, Min(10, n \div 12))
    ELSE Max(min_markers + 4, Min(15, n \div 25))

\* Rules 4 to 8 of the decision list.
LaterRules(fn, original, translated, source_lang, target_lang) ==
    LET orig_words == SeqToSet(SplitWs(NormalizeWords(original)))
        trans_words == SeqToSet(SplitWs(NormalizeWords(translated)))
    IN  IF NormalizeWords(original) = NormalizeWords(translated) THEN FALSE
        ELSE IF /\ source_lang \notin {"zh", "ja", "ko"}
                /\ orig_words # {}
                /\ Cardinality(orig_words \cap trans_words) * 100
                       > 65 * Cardinality(orig_words)
        THEN FALSE
        ELSE IF /\ source_lang \in DOMAIN LANGUAGE_MARKERS
                /\ MarkersFound(fn, translated, source_lang)
                       > RejectionThreshold(LANGUAGE_MARKERS[source_lang].type,
                                            LANGUAGE_MARKERS[source_lang].min_markers,
                                            MarkerTextLength(translated,
                                                LANGUAGE_MARKERS[source_lang].type))
        THEN FALSE
        ELSE IF /\ target_lang \in DOMAIN LANGUAGE_MARKERS
                /\ Len(translated) > 100
                /\ MarkersFound(fn, translated, target_lang)
                       < LANGUAGE_MARKERS[target_lang].min_markers
        THEN FALSE
        ELSE TRUE

\* The decision list: the first rule that matches decides.
RuleList(fn, original, translated, source_lang, target_lang) ==
    IF translated = "" THEN FALSE
    ELSE IF source_lang = target_lang THEN TRUE
    ELSE IF Len(translated) < 50 THEN TRUE
    ELSE LaterRules(fn, original, translated, source_lang, target_lang)

\* C28: the validator decides by the first matching rule of the list: an
\* empty translation is rejected; equal languages are accepted; a
\* translation shorter than 50 characters is accepted; equal normalized
\* texts are rejected; for a source other than zh, ja, ko a word overlap
\* above 0.65 is rejected; more source markers than the length-scaled
\* threshold are rejected; a translation longer than 100 characters with
\* fewer target markers than min_markers is rejected; anything else is
\* accepted.
DecidedByRuleList ==
    AnyValidatorReturned =>
        pure_call.result = RuleList(pure_call.fn, pure_call.args.original,
                                    pure_call.args.translated,
                                    pure_call.args.source_lang,
                                    pure_call.args.target_lang)

\* The validator of the package follows the list whenever the original is
\* not empty.
PackageDecidedByRuleList ==
    (ValidatorReturned /\ pure_call.args.original # "") =>
        pure_call.result = RuleList(pure_call.fn, pure_call.args.original,
                                    pure_call.args.translated,
                                    pure_call.args.source_lang,
                                    pure_call.args.target_lang)

\* Both validators follow the list whenever the original is not empty; the
\* validator of src/translator.py does not.
LegacyDecidedByRuleList ==
    (AnyValidatorReturned /\ pure_call.args.original # "") =>
        pure_call.result = RuleList(pure_call.fn, pure_call.args.original,
                                    pure_call.args.translated,
                                    pure_call.args.source_lang,
                                    pure_call.args.target_lang)

(***************************************************************************)
(* Properties of the sanitizer                                             *)
(***************************************************************************)

\* The sanitizer has returned for the raw response.
CleanReturned ==
    /\ pure_call.fn = "clean_translation_response"
    /\ Len(pure_call.result) >= 1

\* C19: with no previous chunk, cleaning what the sanitizer returned gives
\* the same text again: clean(clean(x, ""), "") = clean(x, "").
CleanIsIdempotent ==
    (/\ pure_call.fn = "clean_translation_response"
     /\ pure_call.args.previous_chunk = ""
     /\ Len(pure_call.result) = 2) =>
        pure_call.result[2] = pure_call.result[1]

\* The names of the tags that enclose reasoning.
ReasoningTags == {"think", "thinking", "reasoning", "reflection"}

\* The text holds a reasoning block: an opening tag of one of the four kinds
\* with its closing tag somewhere after it, in any letter case.
HasReasoningBlock(text) ==
    \E tag \in ReasoningTags :
        LET open == "<" \o tag \o ">"
            close == "</" \o tag \o ">"
            a == FindFrom(Lower(text), open, 1)
        IN  a > 0 /\ FindFrom(Lower(text), close, a + Len(open)) > 0

\* C20: what the sanitizer returns holds no reasoning block and no <think>
\* or <thinking> opening tag (one that is never closed goes with everything
\* after it), and the text outside the blocks is kept:
\* "<think>reasoning</think>Bonjour le monde." becomes "Bonjour le monde.".
ReasoningStripped ==
    CleanReturned =>
        /\ ~HasReasoningBlock(pure_call.result[1])
        /\ FindFrom(Lower(pure_call.result[1]), "<think>", 1) = 0
        /\ FindFrom(Lower(pure_call.result[1]), "<thinking>", 1) = 0
        /\ pure_call.args.translation = "<think>reasoning</think>Bonjour le monde." =>
               pure_call.result[1] = "Bonjour le monde."

(***************************************************************************)
(* Properties of TerminologyManager                                        *)
(***************************************************************************)

\* The last call was ensure_consistency.
EnsureReturned == pure_call.fn = "ensure_consistency"

\* Every occurrence of old in the text replaced by new: the pieces of the
\* text between the occurrences, joined by new.
ReplacedEvery(text, old, new) == Join(SplitOn(text, old), new)

\* Item k of chunk_terms gives a rendering other than the one stored for its
\* original when ensure_consistency was called.
TermConflict(k) ==
    /\ HasTerm(pure_call.args.terms, pure_call.args.chunk_terms[k].original)
    /\ TermOf(pure_call.args.terms, pure_call.args.chunk_terms[k].original)
           # pure_call.args.chunk_terms[k].translated

\* C21: ensure_consistency takes the items of chunk_terms one by one.  For an
\* item whose original had another rendering stored, every occurrence of the
\* new rendering in the text is replaced by the stored one and the stored
\* rendering stays; for any other item the rendering is recorded and the text
\* is not changed.  The call returns the text the last item leaves.
OlderRenderingKept ==
    EnsureReturned =>
        /\ Len(pure_call.steps) = Len(pure_call.args.chunk_terms) + 1
        /\ pure_call.steps[1] = pure_call.args.text
        /\ pure_call.result = pure_call.steps[Len(pure_call.steps)]
        /\ \A k \in 1..Len(pure_call.args.chunk_terms) :
               LET item == pure_call.args.chunk_terms[k]
               IN  /\ HasTerm(terms, item.original)
                   /\ IF TermConflict(k)
                      THEN /\ pure_call.steps[k + 1]
                                  = ReplacedEvery(pure_call.steps[k], item.translated,
                                                  TermOf(pure_call.args.terms, item.original))
                           /\ TermOf(terms, item.original)
                                  = TermOf(pure_call.args.terms, item.original)
                      ELSE /\ pure_call.steps[k + 1] = pure_call.steps[k]
                           /\ TermOf(terms, item.original) = item.translated

\* ensure_consistency has rewritten the text for an item whose original had
\* another rendering, and has recorded the other item of the same call.
RewrittenAndRecorded ==
    /\ EnsureReturned
    /\ Len(pure_call.args.chunk_terms) = 2
    /\ \E k \in 1..2 : TermConflict(k) /\ pure_call.steps[k + 1] # pure_call.steps[k]
    /\ Len(terms) > Len(pure_call.args.terms)

(***************************************************************************)
(* Properties of the post-processing                                       *)
(***************************************************************************)

\* The non-empty paragraphs of a text, stripped.
Paragraphs(text) ==
    SelectSeq([i \in 1..Len(SplitOn(text, "\n\n")) |-> Strip(SplitOn(text, "\n\n")[i])],
              LAMBDA x : x # "")

\* The key of a paragraph: the first 150 characters of its lower-cased,
\* whitespace-collapsed text.
ParagraphKey(p) == SubSeq(NormalizeWords(p), 1, Min(150, Len(NormalizeWords(p))))

IsLongParagraph(p) == Len(NormalizeWords(p)) >= 100

\* The paragraph number i is short, or no long paragraph before it has its key.
FirstOfItsKey(ps, i) ==
    \/ ~IsLongParagraph(ps[i])
    \/ \A k \in 1..(i - 1) :
           ~(IsLongParagraph(ps[k]) /\ ParagraphKey(ps[k]) = ParagraphKey(ps[i]))

\* The paragraphs that are kept, in their order.
KeptParagraphs(ps) ==
    LET kept == SelectSeq([i \in 1..Len(ps) |-> i], LAMBDA i : FirstOfItsKey(ps, i))
    IN  [k \in 1..Len(kept) |-> ps[kept[k]]]

\* The text of the 'completed' record has been built.
FinalTextBuilt ==
    /\ pure_call.fn \in {"translate_text", "_remove_duplicate_paragraphs"}
    /\ pure_call.done

\* C29: the joined final text is de-duplicated before the completed record:
\* every paragraph of fewer than 100 normalized characters is kept, of the
\* longer ones only the first of each key (the first 150 characters of the
\* lower-cased, whitespace-collapsed paragraph), and the kept paragraphs are
\* in their original order.
FinalTextDeduplicated ==
    FinalTextBuilt =>
        pure_call.result =
            Join(KeptParagraphs(Paragraphs(Join(pure_call.args.final_translations,
                                                "\n\n"))), "\n\n")

\* _remove_duplicate_paragraphs of src/translator.py de-duplicates in this way.
LegacyFinalTextDeduplicated ==
    (FinalTextBuilt /\ pure_call.fn = "_remove_duplicate_paragraphs") =>
        pure_call.result =
            Join(KeptParagraphs(Paragraphs(Join(pure_call.args.final_translations,
                                                "\n\n"))), "\n\n")

\* _remove_duplicate_paragraphs has dropped the later of two long
\* paragraphs and kept three paragraphs in all.
LaterDuplicateDropped ==
    /\ FinalTextBuilt
    /\ pure_call.fn = "_remove_duplicate_paragraphs"
    /\ pure_call.args.final_translations = <<LongC, Para1, LongD>>
    /\ pure_call.result = LongC \o "\n\n" \o Para1

DetectReturned == pure_call.fn = "_detect_untranslated_content" /\ pure_call.done

\* A paragraph with the mark before it.
Marked(p) == UntranslatedMark \o " " \o p

\* C30: the detection of untranslated content removes and reorders nothing:
\* the text returned has the non-empty paragraphs of the text given, in the
\* same order, each as it was or with the mark before it, and the list
\* returned holds exactly the paragraphs that got the mark.
DetectionOnlyAnnotates ==
    DetectReturned =>
        LET before == Paragraphs(pure_call.args.text)
            after == Paragraphs(pure_call.result.text)
            marked == SelectSeq([i \in 1..Len(before) |-> i],
                                LAMBDA i : i <= Len(after) /\ after[i] # before[i])
        IN  /\ Len(after) = Len(before)
            /\ \A i \in 1..Len(before) :
                   after[i] = before[i] \/ after[i] = Marked(before[i])
            /\ pure_call.result.problematic = [k \in 1..Len(marked) |-> before[marked[k]]]

\* Of three paragraphs the English one has got the mark, the others have not.
OneParagraphMarked ==
    /\ DetectReturned
    /\ pure_call.args.source_lang = "en"
    /\ Len(Paragraphs(pure_call.args.text)) = 3
    /\ pure_call.result.problematic = <<Para1>>
    /\ Paragraphs(pure_call.result.text)[1] = Marked(Para1)
    /\ Paragraphs(pure_call.result.text)[2] = LongA


(***************************************************************************)
(* Properties of the repetition check of the sanitizer                     *)
(***************************************************************************)

\* The response as it reaches the repetition check, after the reasoning
\* blocks and the wrapping quotes are gone.
BeforeRepetition(translation) == RemoveWrappingQuotes(Strip(Strip(RemoveThinkingTags(Strip(translation)))))

\* The last k lines of the previous chunk, as the check joins them.
LastLines(previous_chunk, k) ==
    LET prev_lines == SplitOn(Strip(previous_chunk), "\n")
    IN  Strip(Join(SubSeq(prev_lines, Len(prev_lines) - k + 1, Len(prev_lines)), "\n"))

\* The numbers k of 1..5 for which the text begins with the last k lines.
RepeatedLines(text, previous_chunk) ==
    { k \in 1 .. Min(PrevLinesMax, Len(SplitOn(Strip(previous_chunk), "\n"))) :
        StartsWith(text, LastLines(previous_chunk, k)) }

Largest(S) == CHOOSE k \in S : \A m \in S : m <= k

\* The text with the longest leading match removed, and nothing else.
WithoutLongestMatch(text, previous_chunk) ==
    LET k == Largest(RepeatedLines(text, previous_chunk))
        match == LastLines(previous_chunk, k)
    IN  Strip(SubSeq(text, Len(match) + 1, Len(text)))

\* C31: when the cleaned text begins with the last k lines of the previous
\* chunk for some k in 1..5, the sanitizer returns the text without the
\* longest such match, and removes nothing more than that one match.
LongestRepetitionStripped ==
    (CleanReturned /\ pure_call.args.previous_chunk # ""
        /\ RepeatedLines(BeforeRepetition(pure_call.args.translation), pure_call.args.previous_chunk) # {})
    => pure_call.result[1] = WithoutLongestMatch(BeforeRepetition(pure_call.args.translation), pure_call.args.previous_chunk)

\* The same, for the matches the check accepts (more than 50 characters).
LongRepetitionStripped ==
    (CleanReturned /\ pure_call.args.previous_chunk # ""
        /\ RepeatedLines(BeforeRepetition(pure_call.args.translation), pure_call.args.previous_chunk) # {}
        /\ Len(LastLines(pure_call.args.previous_chunk, 1)) > PrevLinesMinLen)
    => pure_call.result[1] = WithoutLongestMatch(BeforeRepetition(pure_call.args.translation), pure_call.args.previous_chunk)


(***************************************************************************)
(* Properties of the terms of the TerminologyManager                       *)
(***************************************************************************)

TermsCallReturned == pure_call.fn \in {"add_term", "ensure_consistency"}

\* The originals of a dict, in its order.
Originals(dict) == [i \in 1..Len(dict) |-> dict[i].original]

IsPrefix(p, q) == Len(p) <= Len(q) /\ SubSeq(q, 1, Len(p)) = p

\* C32: add_term and ensure_consistency never drop a term: after either
\* call every term that had a rendering still has one, the terms that were
\* there keep their order and the new ones follow them; add_term gives its
\* term the rendering of the call, also when the term already had one.
TermsGrowInOrder ==
    TermsCallReturned =>
        /\ \A o \in TermOriginals :
               HasTerm(pure_call.args.terms, o) => HasTerm(terms, o)
        /\ IsPrefix(Originals(pure_call.args.terms), Originals(terms))
        /\ \A i, j \in 1..Len(terms) : terms[i].original = terms[j].original => i = j
        /\ pure_call.fn = "add_term" =>
               /\ get_term(terms, pure_call.args.original) = pure_call.args.translated
               /\ \A i \in 1..Len(pure_call.args.terms) :
                      pure_call.args.terms[i].original # pure_call.args.original
                          => terms[i] = pure_call.args.terms[i]

\* add_term has given the first of two terms another rendering.
FirstTermRewritten ==
    /\ pure_call.fn = "add_term"
    /\ Len(pure_call.args.terms) = 2
    /\ pure_call.args.terms[1].original = pure_call.args.original
    /\ pure_call.args.terms[1].translated # pure_call.args.translated
    /\ terms[1].translated = pure_call.args.translated


(***************************************************************************)
(* Properties of the terminology section                                   *)
(***************************************************************************)

\* The items of a sequence.
ItemsOf(seq) == { seq[i] : i \in 1..Len(seq) }

\* The place of the last add_term call for an original.
LastWrite(writes, original) ==
    CHOOSE i \in 1..Len(writes) :
        /\ writes[i].original = original
        /\ \A j \in (i + 1)..Len(writes) : writes[j].original # original

\* The n terms written last: each of them was last written after every term
\* left out.
MostRecent(writes, dict, n) ==
    { item \in ItemsOf(dict) :
        Cardinality({ other \in ItemsOf(dict) :
                        LastWrite(writes, other.original) > LastWrite(writes, item.original) }) < n }

\* The lines of a context after its header.
ListedLines(context) == ItemsOf(Tail(SplitOn(context, "\n")))

\* C33: with no term get_context_for_prompt(max_terms) returns the empty
\* string; otherwise it lists the max_terms terms that were added or updated
\* last, one line each, and no other term.
ContextListsMostRecent ==
    (pure_call.fn = "get_context_for_prompt" /\ pure_call.done) =>
        IF terms = <<>> THEN pure_call.result = ""
        ELSE /\ SplitOn(pure_call.result, "\n")[1] = ContextHeader
             /\ ListedLines(pure_call.result)
                    = { ContextLine(item) :
                          item \in MostRecent(pure_call.args.writes, terms, pure_call.args.max_terms) }

\* The same without the updates: the terms listed are those added last.
ContextListsLastAdded ==
    (pure_call.fn = "get_context_for_prompt" /\ pure_call.done
        /\ pure_call.args.max_terms > 0) =>
        IF terms = <<>> THEN pure_call.result = ""
        ELSE ListedLines(pure_call.result)
                 = { ContextLine(terms[i]) :
                       i \in { k \in 1..Len(terms) : k > Len(terms) - pure_call.args.max_terms } }

\* get_terminology_context of src/translator.py lists the ten terms written
\* last.
LegacyContextListsMostRecent ==
    (pure_call.fn = "get_terminology_context" /\ pure_call.done /\ terms # <<>>) =>
        pure_call.result
            = get_terminology_context(
                  LastItems(terms, LegacyContextTerms))


(***************************************************************************)
(* Properties of cleanup                                                   *)
(***************************************************************************)

\* This step is a cleanup(days) call that sqlite3 let through.
CleanupDone(days) ==
    /\ pure_call' # pure_call
    /\ pure_call'.fn = "cleanup"
    /\ pure_call'.args.days = days
    /\ pure_call'.result = None

\* The entries last used more than days days ago.
OlderThan(days) == {h \in DOMAIN cache : last_used[h] < now - days}

\* The step removes the entries of old and keeps every other entry as it is.
RemovesExactly(old) ==
    /\ DOMAIN cache' = DOMAIN cache \ old
    /\ \A h \in DOMAIN cache' : cache'[h] = cache[h] /\ last_used'[h] = last_used[h]

\* C34: for every days >= 0, cleanup(days) removes exactly the entries last
\* used more than days days ago and keeps the others with their texts; so an
\* entry that get read within the last days days is still there.
CleanupRemovesOld ==
    [][\A days \in CleanupDays \ {NoDays} : CleanupDone(days) => RemovesExactly(OlderThan(days))]_vars

\* The same for days >= 1, and for cleanup() with the configured age.
CleanupRemovesOldPositive ==
    [][/\ \A days \in CleanupDays \ {NoDays, 0} : CleanupDone(days) => RemovesExactly(OlderThan(days))
       /\ CleanupDone(NoDays) => RemovesExactly(OlderThan(MaxAgeDays))]_vars


(***************************************************************************)
(* Properties of a second job for the same document                        *)
(***************************************************************************)

\* The job is the second one for its document.
SecondRun == pure_call.fn = "translate_text"

\* Every chunk of the first job got a draft and a final text, none of them
\* the failure placeholder.
FirstRunSucceeded ==
    /\ Len(pure_call.result.chunks) > 0
    /\ Len(pure_call.result.drafts) = Len(pure_call.result.chunks)
    /\ Len(pure_call.result.finals) = Len(pure_call.result.chunks)
    /\ \A i \in 1..Len(pure_call.result.chunks) :
           ~IsFailed(pure_call.result.drafts[i]) /\ ~IsFailed(pure_call.result.finals[i])

\* The text before text i of a list, "" for the first.
PreviousOf(texts, i) == IF i = 1 THEN "" ELSE texts[i - 1]

\* The cache holds the draft and the final text of every chunk of the first
\* job under the key the job computed for it.
FirstRunStored ==
    \A i \in 1..Len(pure_call.result.chunks) :
        LET chunk == pure_call.result.chunks[i]
            s1 == CacheGet(cache, TRUE, FALSE, chunk, SourceLang, TargetLang, Stage1Tag,
                           GetContextHash(PreviousOf(pure_call.result.drafts, i)))
            s2 == CacheGet(cache, TRUE, FALSE, chunk, SourceLang, TargetLang, Stage2Tag,
                           GetContextHash(PreviousOf(pure_call.result.finals, i)))
        IN  /\ s1.hit /\ s1.machine_translation = pure_call.result.drafts[i]
            /\ s2.hit /\ s2.translated_text = pure_call.result.finals[i]

\* The second job has the texts of the first so far.
SameSoFar(j) ==
    /\ IsPrefix(drafts[j], pure_call.result.drafts)
    /\ IsPrefix(finals[j], pure_call.result.finals)

\* The step ends a stage 1 (stage 2) iteration of job j with the text the
\* first job had for the chunk, taken from the cache.
DraftFromCache(j) ==
    /\ drafts'[j] = SubSeq(pure_call.result.drafts, 1, Len(drafts[j]) + 1)
    /\ origin1'[j] = Append(origin1[j], "cache")
    /\ pc'[j] \in {"s1_lookup", "s2_lookup"}

FinalFromCache(j) ==
    /\ finals'[j] = SubSeq(pure_call.result.finals, 1, Len(finals[j]) + 1)
    /\ origin2'[j] = Append(origin2[j], "cache")
    /\ pc'[j] \in {"s2_lookup", "complete"}

StoredTextsValidated ==
    last_set # NoSet =>
        /\ Validated(last_set.text, last_set.translated_text)
        /\ Validated(last_set.text, last_set.machine_translation)
        /\ ~IsFailed(last_set.translated_text)

\* Stage 2 has fallen back to the draft of the second chunk after its last
\* failed attempt, and has stored it under the stage 2 key.
FallbackDraftStored ==
    \E j \in Jobs :
        /\ Len(origin2[j]) = 2
        /\ origin2[j][2] = "fallback"
        /\ last_set.model = Stage2Tag
        /\ last_set.text = chunks[j][2]
        /\ last_set.translated_text = drafts[j][2]
        /\ finals[j][2] = drafts[j][2]


(***************************************************************************)
(* Termination of translate_text                                           *)
(***************************************************************************)

\* The iterations of the two loops a worker at position p, chunk i of n, has
\* not finished yet.
IterationsLeft(p, i, n) ==
    IF p \in {"s1_lookup", "s1_generate", "s1_wait"} THEN (n - i + 1) + n
    ELSE IF p \in {"s2_lookup", "s2_generate", "s2_wait"} THEN n - i + 1
    ELSE 0

\* The generate calls the worker can still make: max_retries for each
\* iteration left, less those made in the current one (a attempts have
\* failed, and one more call is out while the worker waits).
CallsLeft(p, i, n, a) ==
    IterationsLeft(p, i, n) * MaxRetries
        - (a + IF p \in {"s1_wait", "s2_wait"} THEN 1 ELSE 0)

Running(j) == pc[j] \notin {"none", "begin"}

\* C37: a job whose worker has started ends; from the split on, the number
\* of generate calls it can still make is between 0 and 2 * N * max_retries
\* for its N chunks, no step raises it and every generate call lowers it by
\* one, so the job makes at most 2 * N * max_retries calls; at its end the
\* 'completed' record has been emitted or the job is marked failed.
TerminatesWithinCallBound ==
    /\ \A j \in Jobs : (pc[j] = "begin") ~> (pc[j] = "done")
    /\ [](\A j \in Jobs :
            /\ Running(j) =>
                   /\ CallsLeft(pc[j], idx[j], Len(chunks[j]), attempt[j]) >= 0
                   /\ CallsLeft(pc[j], idx[j], Len(chunks[j]), attempt[j])
                          <= 2 * Len(chunks[j]) * MaxRetries
            /\ pc[j] = "done" => (CompletedEmitted(j) \/ row[j].status = "failed"))
    /\ [][\A j \in Jobs :
              Running(j) =>
                  /\ chunks'[j] = chunks[j]
                  /\ CallsLeft(pc'[j], idx'[j], Len(chunks[j]), attempt'[j])
                         <= CallsLeft(pc[j], idx[j], Len(chunks[j]), attempt[j])
                  /\ GenerateCalled(j) =>
                         CallsLeft(pc'[j], idx'[j], Len(chunks[j]), attempt'[j])
                             = CallsLeft(pc[j], idx[j], Len(chunks[j]), attempt[j]) - 1]_vars

\* The worker of a job of two chunks is waiting for the answer to the last
\* call the bound allows: the last attempt of the second chunk in stage 2.
EveryAttemptUsed ==
    \E j \in Jobs :
        /\ pc[j] = "s2_wait"
        /\ Len(chunks[j]) = 2
        /\ idx[j] = 2
        /\ attempt[j] = MaxRetries - 1
        /\ CallsLeft(pc[j], idx[j], Len(chunks[j]), attempt[j]) = 0


(***************************************************************************)
(* Properties of the context of a chunk                                    *)
(***************************************************************************)

\* The context hashes of the failure placeholders of the chunks of job j.
SentinelHashes(j) ==
    { GetContextHash(FailedPlaceholder(chunks[j][i])) : i \in 1..Len(chunks[j]) }

\* C38: no stage 1 prompt sent to the model has the failure placeholder of a
\* chunk in its context section, and no cache.get of either stage is made
\* with the context hash of a failure placeholder.
SentinelNeverContext ==
    \A j \in Jobs :
        /\ \A k \in 1..Len(in_flight[j]) :
               FindFrom(in_flight[j][k].context, FailedPrefix, 1) = 0
        /\ last_get.context_hash \notin SentinelHashes(j)

\* The two halves of C38, each on its own.
SentinelNeverInPrompt ==
    \A j \in Jobs : \A k \in 1..Len(in_flight[j]) :
        FindFrom(in_flight[j][k].context, FailedPrefix, 1) = 0

SentinelNeverHashed ==
    \A j \in Jobs : last_get.context_hash \notin SentinelHashes(j)

\* The placeholder is hashed into the context of a stage 2 cache check.
SentinelNeverHashedInStage2 ==
    \A j \in Jobs : last_get.model = Stage2Tag => last_get.context_hash \notin SentinelHashes(j)


(***************************************************************************)
(* Properties of stream_translation                                        *)
(***************************************************************************)

\* The stream of an existing job has ended.
StreamClosed ==
    /\ pure_call.fn = "stream_translation"
    /\ pure_call.done
    /\ "error" \notin pure_call.result

\* C39: when the stream of a job ends, one of the events it has delivered
\* carries the final status of the job: completed, failed or cancelled.
StreamDeliversFinalStatus ==
    StreamClosed => pure_call.result \cap StreamEndStatuses # {}

\* The stream ends having delivered the status completed.
StreamDeliveredCompleted ==
    StreamClosed /\ "completed" \in pure_call.result

\* The same for a job that no DELETE request has touched: the stream that
\* ends on a completed or failed row has delivered that status.
StreamDeliversWorkerStatus ==
    \A j \in Jobs :
        (/\ StreamClosed
         /\ pure_call.args.translation_id = j
         /\ row[j].status \in {"completed", "failed"})
            => row[j].status \in pure_call.result


(***************************************************************************)
(* Properties of RateLimiter.is_allowed                                    *)
(***************************************************************************)

\* The times at which a 60-second window can end.
WindowEnds == { k * TickSeconds : k \in 0..MaxTicks }

\* The admitted requests whose time lies in the window that ends at t.
AdmittedInWindow(t) ==
    { i \in 1..Len(limiter.admitted) :
        /\ limiter.admitted[i] > t - WindowSeconds
        /\ limiter.admitted[i] <= t }

\* C40: the requests of one client that is_allowed has admitted are at most
\* requests_per_minute in every 60-second window, whichever way the threads
\* that handle them take their turns.
AtMostPerMinute ==
    \A t \in WindowEnds : Cardinality(AdmittedInWindow(t)) <= RequestsPerMinute

\* The second half of C40: a call that returns False leaves the list of
\* the client's requests as it found it.
RejectedNotRecorded ==
    [][\A t \in LimiterThreads :
          LimiterReject(t) => limiter'.requests = limiter.requests]_vars

\* A request has been rejected.
SomeRejected == limiter.rejected > 0

\* Every admitted request of the last 60 seconds is in the list. It fails
\* when the cleanup of one thread stores a list it had read before another
\* thread appended.
NoAdmittedRequestLost ==
    Len(InsideWindow(limiter.requests, limiter.time - WindowSeconds))
        >= Cardinality(AdmittedInWindow(limiter.time))

====
